---- MODULE Spec2Model ----
(***************************************************************************)
(* A model of the eigen-trust node: the Peer state (eigen-trust/src/peer/  *)
(* mod.rs) and the driver's event handlers (eigen-trust/src/node.rs).      *)
(*                                                                         *)
(* The Peer struct is one record, `peer`; every method of Peer is an       *)
(* operator from a Peer record (and the call's arguments) to the Peer      *)
(* record after the call, or to the value the call returns.  An action is  *)
(* one call of a public method or one handled driver event.  `last`        *)
(* records the call that was made last: its arguments, what it returned,   *)
(* what it sent, and the Peer record it started from.                      *)
(*                                                                         *)
(* f64 values are modelled by their IEEE 754 encoding, with the rounding   *)
(* of every operation.  A proof blob is modelled by the key that produced  *)
(* it (0: an empty or malformed blob).                                     *)
(***************************************************************************)
EXTENDS Integers, Sequences, FiniteSets, TLC

\* ------------------------------------------------------------- bounds
\* The neighbor array's length (constants::MAX_NEIGHBORS), scaled down.
MAX_NEIGHBORS == 2
\* Epochs range over GENESIS_EPOCH .. MaxEpoch.
MaxEpoch == 1
\* Raw scores given to set_score range over 0 .. MaxScore.
MaxScore == 2
\* Application public keys are 1 .. NumKeys.
NumKeys == 3
\* main_loop runs while the clock is in epochs 0 .. MaxClock.
MaxClock == 3
\* interval_limit ranges over None and Some(0) .. Some(MaxLimit).
MaxLimit == 2
\* At most MaxQueue swarm events wait to be handled.
MaxQueue == 2
MaxInterval == 4
MaxGenesis == 2
MaxNow == 12
MaxKey == 2
\* A manager is given at most MaxChildren children.
MaxChildren == 2
MaxBeats == 2
MaxManagers == 4
MaxConnections == 2
SetSize == 3
MaxItems == 3
\* An opinion cache holds at most MaxCached entries.
MaxCached == 2

\* --------------------------------------------------------- constants
GENESIS_EPOCH == 0

\* One more peer id than there are slots, so that the table can be full
\* when another peer connects.
PeerIds == 1 .. (MAX_NEIGHBORS + 1)
Epochs == GENESIS_EPOCH .. MaxEpoch
Slots == 1 .. MAX_NEIGHBORS
Keys == 1 .. NumKeys
Scores == 0 .. MaxScore
\* Option::None for a neighbor slot, and for a pubkey that is not known.
NoPeer == 0
NoKey == 0
\* The application key of this node (the keypair the Peer is built with).
LocalKey == 1
\* The second node: its application key, the PeerId this node knows it by,
\* and the PeerId it knows this node by.
RemoteKey == 2
RemoteId == 1
LocalId == 2

\* ------------------------------------------- natural numbers of any size
\* A natural number is the sequence of its digits in base 2^14, the least
\* significant first and the most significant not 0; <<>> is zero.  Products
\* and sums of two digits stay below 2^31.
Limb == 2 ^ 14

RECURSIVE BTrim(_)
BTrim(a) ==
    IF a = <<>> THEN a
    ELSE IF a[Len(a)] = 0 THEN BTrim(SubSeq(a, 1, Len(a) - 1)) ELSE a

RECURSIVE BFromInt(_)
BFromInt(n) == IF n = 0 THEN <<>> ELSE <<n % Limb>> \o BFromInt(n \div Limb)

BLimb(a, i) == IF i >= 1 /\ i <= Len(a) THEN a[i] ELSE 0

RECURSIVE BAddFrom(_, _, _, _)
BAddFrom(a, b, i, carry) ==
    IF i > Len(a) /\ i > Len(b) THEN (IF carry = 0 THEN <<>> ELSE <<carry>>)
    ELSE LET t == BLimb(a, i) + BLimb(b, i) + carry
         IN <<t % Limb>> \o BAddFrom(a, b, i + 1, t \div Limb)

BAdd(a, b) == BAddFrom(a, b, 1, 0)

RECURSIVE BSubFrom(_, _, _, _)
BSubFrom(a, b, i, borrow) ==
    IF i > Len(a) THEN <<>>
    ELSE LET t == a[i] - BLimb(b, i) - borrow
         IN <<t % Limb>> \o BSubFrom(a, b, i + 1, IF t < 0 THEN 1 ELSE 0)

\* a - b, for a >= b
BSub(a, b) == BTrim(BSubFrom(a, b, 1, 0))

RECURSIVE BCmpFrom(_, _, _)
BCmpFrom(a, b, i) ==
    IF i = 0 THEN 0
    ELSE IF a[i] > b[i] THEN 1
    ELSE IF a[i] < b[i] THEN -1
    ELSE BCmpFrom(a, b, i - 1)

\* -1, 0 or 1 as a is below, equal to or above b
BCmp(a, b) ==
    IF Len(a) > Len(b) THEN 1
    ELSE IF Len(a) < Len(b) THEN -1
    ELSE BCmpFrom(a, b, Len(a))

RECURSIVE BMulSmallFrom(_, _, _, _)
BMulSmallFrom(a, k, i, carry) ==
    IF i > Len(a) THEN (IF carry = 0 THEN <<>> ELSE <<carry>>)
    ELSE LET t == a[i] * k + carry
         IN <<t % Limb>> \o BMulSmallFrom(a, k, i + 1, t \div Limb)

\* a * k, for one digit k
BMulSmall(a, k) == IF k = 0 THEN <<>> ELSE BMulSmallFrom(a, k, 1, 0)

RECURSIVE BColumn(_, _, _, _)
\* The sum of the products a[j] * b[k + 1 - j], for j >= i
BColumn(a, b, k, i) ==
    IF i > Len(a) \/ i > k THEN 0
    ELSE BLimb(a, i) * BLimb(b, k + 1 - i) + BColumn(a, b, k, i + 1)

RECURSIVE BMulFrom(_, _, _, _)
BMulFrom(a, b, k, carry) ==
    IF k > Len(a) + Len(b) THEN <<>>
    ELSE LET t == BColumn(a, b, k, 1) + carry
         IN <<t % Limb>> \o BMulFrom(a, b, k + 1, t \div Limb)

\* a * b, for a and b of at most seven digits (a column stays below 2^31)
BMul(a, b) == BTrim(BMulFrom(a, b, 1, 0))

\* a << n and a >> n, digit by digit
BShl(a, n) ==
    LET w == n \div 14
        r == 2 ^ (n % 14)
    IN BTrim([i \in 1 .. (Len(a) + w + 1) |->
                ((BLimb(a, i - w) * r) % Limb) + ((BLimb(a, i - w - 1) * r) \div Limb)])
BShr(a, n) ==
    LET w == n \div 14
        r == 2 ^ (n % 14)
    IN IF w >= Len(a) THEN <<>>
       ELSE BTrim([i \in 1 .. (Len(a) - w) |->
                     (a[i + w] \div r) + (BLimb(a, i + w + 1) % r) * (Limb \div r)])

\* The binary digit i of a (digit 0 is the lowest)
BBit(a, i) == (BLimb(a, (i \div 14) + 1) \div (2 ^ (i % 14))) % 2
\* The binary digits of a below digit i are all 0
BLowZero(a, i) ==
    /\ \A j \in 1 .. (i \div 14) : BLimb(a, j) = 0
    /\ BLimb(a, (i \div 14) + 1) % (2 ^ (i % 14)) = 0

RECURSIVE BitLen(_)
BitLen(n) == IF n = 0 THEN 0 ELSE 1 + BitLen(n \div 2)
\* The number of binary digits of a
BBitLen(a) == IF a = <<>> THEN 0 ELSE 14 * (Len(a) - 1) + BitLen(a[Len(a)])

BIsOdd(a) == a # <<>> /\ a[1] % 2 = 1

RECURSIVE BFixDigit(_, _, _)
BFixDigit(rem, d, q) ==
    IF BCmp(BMulSmall(d, q), rem) > 0 THEN BFixDigit(rem, d, q - 1) ELSE q

\* The digit rem \div d, for rem < d * 2^14 and d's top digit >= 2^13:
\* the estimate from the two top digits is at most 2 too large.
BDigit(rem, d) ==
    LET n == Len(d)
        est == (BLimb(rem, n + 1) * Limb + BLimb(rem, n)) \div d[n]
    IN BFixDigit(rem, d, IF est > Limb - 1 THEN Limb - 1 ELSE est)

RECURSIVE BDivFrom(_, _, _, _, _)
\* The digit dig of the quotient is written below the digits q, and the
\* division goes on with what is left of cur.
BDivTake(a, d, i, cur, q, dig) ==
    BDivFrom(a, d, i - 1, BSub(cur, BMulSmall(d, dig)), <<dig>> \o q)

\* The digit of the quotient at place i: cur by d.
BDivStep(a, d, i, cur, q) == BDivTake(a, d, i, cur, q, BDigit(cur, d))

\* The digits of a from place i down are divided by d; rem is the remainder
\* and q the quotient of the digits above place i.
BDivFrom(a, d, i, rem, q) ==
    IF i = 0 THEN [q |-> BTrim(q), r |-> rem]
    ELSE BDivStep(a, d, i, BTrim(<<a[i]>> \o rem), q)

\* The result of a division the operands of which were shifted by s places
BDivUnshift(res, s) == [q |-> res.q, r |-> BShr(res.r, s)]

\* a by d, for a and d shifted by s places so that d's top digit >= 2^13
BDivShifted(a, d, s) == BDivUnshift(BDivFrom(a, d, Len(a), <<>>, <<>>), s)

\* Quotient and remainder of a by d # 0 (long division, digit by digit)
BDivMod(a, d) ==
    LET s == 14 - BitLen(d[Len(d)])
    IN BDivShifted(BShl(a, s), BShl(d, s), s)

\* ------------------------------------------------------------------ f64
\* An f64 is its IEEE 754 binary64 encoding: the sign bit, the 11 bits of
\* the exponent field and the 52 bits of the fraction field (a natural
\* number as above).  Arithmetic is the exact result rounded to nearest,
\* ties to even.  The NaN an operation returns is the one of the x86-64
\* build: its NaN operand with the quiet bit set, of two NaN operands the
\* first operand of the instruction, and for an invalid operation on other
\* operands the NaN with the sign set and no payload.
F64(sign, exponent, fraction) ==
    [sign |-> sign, exponent |-> exponent, fraction |-> fraction]

\* The result of inf - inf, 0 * inf, 0 / 0 and inf / inf
F64_INDEFINITE == F64(1, 2047, BShl(<<1>>, 51))
FZero == F64(0, 0, <<>>)

IsNaN(x) == x.exponent = 2047 /\ x.fraction # <<>>
IsInfinite(x) == x.exponent = 2047 /\ x.fraction = <<>>
IsFinite(x) == x.exponent # 2047
IsZero(x) == x.exponent = 0 /\ x.fraction = <<>>

\* The NaN x as an operation returns it: the sign and the payload of x, the
\* quiet bit (bit 51 of the fraction) set
Quiet(x) ==
    IF BBit(x.fraction, 51) = 1 THEN x
    ELSE [x EXCEPT !.fraction = [i \in 1 .. 4 |-> IF i = 4 THEN BLimb(@, 4) + 2 ^ 9
                                                  ELSE BLimb(@, i)]]

\* The NaN an instruction with the operands x and y, in this order, returns
\* when one of them is NaN
NaNOf(x, y) == IF IsNaN(x) THEN Quiet(x) ELSE Quiet(y)

\* x = (-1)^sign * Significand(x) * 2^Power(x), for a finite x
Significand(x) ==
    IF x.exponent = 0 THEN x.fraction
    ELSE [i \in 1 .. 4 |-> IF i = 4 THEN BLimb(x.fraction, 4) + 2 ^ 10
                                    ELSE BLimb(x.fraction, i)]
Power(x) == IF x.exponent = 0 THEN -1074 ELSE x.exponent - 1075

\* The f64 of m * 2^p, for m < 2^53 with p = -1074, or 2^52 <= m <= 2^53
F64Pack(sign, m, p) ==
    LET len == BBitLen(m)
    IN IF len = 54 THEN
           (IF p + 1076 >= 2047 THEN F64(sign, 2047, <<>>)
            ELSE F64(sign, p + 1076, <<>>))
       ELSE IF len = 53 THEN
           (IF p + 1075 >= 2047 THEN F64(sign, 2047, <<>>)
            ELSE F64(sign, p + 1075, BTrim([m EXCEPT ![4] = @ - 2 ^ 10])))
       ELSE F64(sign, 0, m)

\* q rounded to nearest: one more when the digits dropped from it are above
\* a half, or are a half (half holds and above does not) and q is odd.
BNearest(q, half, above) ==
    IF half /\ (above \/ BIsOdd(q)) THEN BAdd(q, <<1>>) ELSE q

\* F64Round dropping the k lowest binary digits of n (adding -k for k < 0)
F64RoundAt(sign, n, e, sticky, k) ==
    F64Pack(sign,
            IF k <= 0 THEN BShl(n, 0 - k)
            ELSE BNearest(BShr(n, k), BBit(n, k - 1) = 1,
                          ~BLowZero(n, k - 1) \/ sticky),
            e + k)

\* The f64 nearest to n * 2^e (to a value just above it when sticky), ties
\* to the even significand; past the largest finite value, the infinity.
F64Round(sign, n, e, sticky) ==
    LET k0 == BBitLen(n) - 53
    IN F64RoundAt(sign, n, e, sticky, IF e + k0 < -1074 THEN -1074 - e ELSE k0)

\* f64::from(u32), and the same for a negative integer
FromInt(n) ==
    F64Round(IF n < 0 THEN 1 ELSE 0, BFromInt(IF n < 0 THEN 0 - n ELSE n), 0, FALSE)

FNeg(x) == [x EXCEPT !.sign = 1 - @]
\* f64::abs
FAbs(x) == [x EXCEPT !.sign = 0]

\* The significand of x in units of 2^e.  An operand more than 60 binary
\* places below the other only decides the direction of rounding: it counts
\* as one unit.
Aligned(x, e) ==
    IF Power(x) >= e THEN BShl(Significand(x), Power(x) - e)
    ELSE IF IsZero(x) THEN <<>> ELSE <<1>>

\* The power of 2 two finite values of powers px and py are aligned at
AlignPower(px, py) ==
    LET lo == IF px < py THEN px ELSE py
        hi == IF px < py THEN py ELSE px
    IN IF hi - lo > 60 THEN hi - 60 ELSE lo

\* The sum of nx * 2^e with sign sx and ny * 2^e with sign sy, c comparing
\* nx with ny: opposite values of one magnitude add up to +0.
FAddAligned(sx, nx, sy, ny, e, c) ==
    F64Round(IF sx = sy \/ c > 0 THEN sx ELSE IF c < 0 THEN sy ELSE 0,
             IF sx = sy THEN BAdd(nx, ny)
             ELSE IF c >= 0 THEN BSub(nx, ny) ELSE BSub(ny, nx),
             e, FALSE)

FAddCompared(sx, nx, sy, ny, e) == FAddAligned(sx, nx, sy, ny, e, BCmp(nx, ny))

\* x + y for finite x and y that are not zero, aligned at 2^e
FAddAt(x, y, e) == FAddCompared(x.sign, Aligned(x, e), y.sign, Aligned(y, e), e)

\* x + y, by an addsd that takes x first
FAdd(x, y) ==
    IF IsNaN(x) \/ IsNaN(y) THEN NaNOf(x, y)
    ELSE IF IsInfinite(x)
    THEN (IF IsInfinite(y) /\ x.sign # y.sign THEN F64_INDEFINITE ELSE x)
    ELSE IF IsInfinite(y) THEN y
    ELSE IF IsZero(y) THEN (IF IsZero(x) /\ x.sign # y.sign THEN FZero ELSE x)
    ELSE IF IsZero(x) THEN y
    ELSE FAddAt(x, y, AlignPower(Power(x), Power(y)))

\* x - y: a NaN operand is returned as it is, not negated
FSub(x, y) == IF IsNaN(x) \/ IsNaN(y) THEN NaNOf(x, y) ELSE FAdd(x, FNeg(y))

\* x * y, by a mulsd that takes x first
FMul(x, y) ==
    LET sign == (x.sign + y.sign) % 2
    IN IF IsNaN(x) \/ IsNaN(y) THEN NaNOf(x, y)
       ELSE IF IsInfinite(x) \/ IsInfinite(y)
       THEN (IF IsZero(x) \/ IsZero(y) THEN F64_INDEFINITE
             ELSE F64(sign, 2047, <<>>))
       ELSE IF IsZero(x) \/ IsZero(y) THEN F64(sign, 0, <<>>)
       ELSE F64Round(sign, BMul(Significand(x), Significand(y)),
                     Power(x) + Power(y), FALSE)

\* x + y and x * y where the build decides which operand the instruction
\* takes first (addition and multiplication commute, and the compiler orders
\* their operands as the registers suit it): every value the build can
\* return.  They differ for two NaN operands only, where either operand
\* comes back with the quiet bit set.
FAddEither(x, y) == IF IsNaN(x) /\ IsNaN(y) THEN {Quiet(x), Quiet(y)} ELSE {FAdd(x, y)}
FMulEither(x, y) == IF IsNaN(x) /\ IsNaN(y) THEN {Quiet(x), Quiet(y)} ELSE {FMul(x, y)}

\* The places a significand of lx binary digits is shifted by for its
\* quotient by one of ly digits to have at least 55 digits
DivShift(lx, ly) == IF 55 + ly - lx < 0 THEN 0 ELSE 55 + ly - lx

\* The f64 of a quotient d.q * 2^p: what the remainder d.r leaves out only
\* decides the direction of rounding.
FQuotient(sign, d, p) == F64Round(sign, d.q, p, d.r # <<>>)

\* (mx * 2^p) / my, with mx shifted by sh places
FDivBy(sign, mx, my, p, sh) == FQuotient(sign, BDivMod(BShl(mx, sh), my), p - sh)

\* x / y
FDiv(x, y) ==
    LET sign == (x.sign + y.sign) % 2
    IN IF IsNaN(x) \/ IsNaN(y) THEN NaNOf(x, y)
       ELSE IF IsInfinite(x)
       THEN (IF IsInfinite(y) THEN F64_INDEFINITE ELSE F64(sign, 2047, <<>>))
       ELSE IF IsInfinite(y) THEN F64(sign, 0, <<>>)
       ELSE IF IsZero(y)
       THEN (IF IsZero(x) THEN F64_INDEFINITE ELSE F64(sign, 2047, <<>>))
       ELSE IF IsZero(x) THEN F64(sign, 0, <<>>)
       ELSE FDivBy(sign, Significand(x), Significand(y), Power(x) - Power(y),
                   DivShift(BBitLen(Significand(x)), BBitLen(Significand(y))))

\* The order of the magnitudes is the order of the encodings.
FMagCmp(x, y) ==
    IF x.exponent > y.exponent THEN 1
    ELSE IF x.exponent < y.exponent THEN -1
    ELSE BCmp(x.fraction, y.fraction)

\* -1, 0 or 1 for two values that are not NaN
FCmp(x, y) ==
    IF IsZero(x) /\ IsZero(y) THEN 0
    ELSE IF x.sign # y.sign THEN (IF x.sign = 1 THEN -1 ELSE 1)
    ELSE IF x.sign = 0 THEN FMagCmp(x, y) ELSE FMagCmp(y, x)

\* x <= y: false when either is NaN
FLeq(x, y) == ~IsNaN(x) /\ ~IsNaN(y) /\ FCmp(x, y) <= 0

\* The f64 nearest to n / d, as a decimal literal of the source is read
Frac(n, d) == FDiv(FromInt(n), FromInt(d))

\* constants::MIN_SCORE, the bootstrap trust every fold starts from.
MIN_SCORE == Frac(1, 10)

\* ------------------------------------------------------------ Opinion
\* Opinion { epoch, op, proof_bytes }.  proof is the key whose holder made
\* the proof, 0 for the empty blob of Opinion::empty() or a blob no key made.
Opinion_new(epoch, op, proof) == [epoch |-> epoch, op |-> op, proof |-> proof]

\* Opinion::empty(): the genesis epoch, op 0.0 and no proof bytes.
Opinion_empty == Opinion_new(GENESIS_EPOCH, FZero, NoKey)

\* Epoch::previous(): one less, saturating at 0.
previous(k) == IF k = 0 THEN 0 ELSE k - 1

\* The target keys for which Opinion::generate fails (the hash of the message
\* does not embed in the signature's field, the signature or the prover
\* fails).  Which inputs fail is decided by the cryptography, which is not
\* modelled; the last key stands for them.
GenerateFails(pubkey_v) == pubkey_v = NumKeys

RECURSIVE FoldAdd(_, _, _)
\* arr.iter().fold(acc, |acc, t| acc + t) over arr[i ..]
FoldAdd(arr, i, acc) ==
    IF i > MAX_NEIGHBORS THEN acc ELSE FoldAdd(arr, i + 1, FAdd(acc, arr[i]))

\* Opinion::generate(kp, pubkey_v, k, op_ji, c_v, ..), whose code
\* (peer/opinion.rs) is not in the tree: the opinion at epoch k, proved with
\* the local key, or an error when c_v is out of the range the scaling
\* represents (it is not a finite number) or when hashing, signing or
\* proving fails.  The op is the one the test of peer/mod.rs 293-346 fixes:
\* for four op_ji of 0.2 and c_v = 0.25 it is 0.9 * 0.25, where the fold from
\* MIN_SCORE of global_trust_score_at gives 0.8999999999999999, so the op is
\* (sum of op_ji + MIN_SCORE) * c_v with the op_ji added before MIN_SCORE.
\* The test does not tell this order from (sum of op_ji * c_v) + MIN_SCORE *
\* c_v; the two agree up to rounding, and the op is compared up to rounding.
Opinion_generate(kp, pubkey_v, k, op_ji, c_v) ==
    IF GenerateFails(pubkey_v) \/ ~IsFinite(c_v)
    THEN [ok |-> FALSE, opinion |-> Opinion_empty]
    ELSE [ok |-> TRUE,
          opinion |-> Opinion_new(k, FMul(FAdd(FoldAdd(op_ji, 1, FZero), MIN_SCORE), c_v),
                                  kp)]

\* opinion.verify(pubkey_p, kp, ..), whose code is not in the tree either:
\* what spec 4.2 says of verify(claimed_signer_pubkey, ..).  Ok(true) when
\* the proof was made by the holder of pubkey_p, Ok(false) when it was made
\* by another key or the opinion is the empty sentinel,
\* Err(VerificationError) for any other blob.  The keypair kp of the
\* verifier, which the call of mod.rs 160 hands over, has no part in the
\* verify of the spec.
Opinion_verify(o, pubkey_p, kp) ==
    IF o.proof = NoKey THEN (IF o = Opinion_empty THEN "Ok(false)" ELSE "Err")
    ELSE IF o.proof = pubkey_p THEN "Ok(true)" ELSE "Ok(false)"

\* --------------------------------------------------------------- Peer
\* Peer::new: no neighbors, no keys, no scores, empty caches.
\* pubkeys[p] = NoKey and neighbor_scores[p] = 0 stand for a missing key of
\* the HashMap: the code reads the maps only through get_pub_key (an Option)
\* and get(..).unwrap_or(&0), and never removes a key.
Peer_of(keypair) ==
    [keypair |-> keypair,
     neighbors |-> [i \in Slots |-> NoPeer],
     pubkeys_native |-> [p \in PeerIds |-> NoKey],
     pubkeys |-> [p \in PeerIds |-> NoKey],
     neighbor_scores |-> [p \in PeerIds |-> 0],
     cached_neighbor_opinion |-> <<>>,
     cached_local_opinion |-> <<>>]

\* The Peer of this node.
Peer_new == Peer_of(LocalKey)

\* self.neighbors.contains(&Some(peer_id))
contains(s, peer_id) == \E i \in Slots : s.neighbors[i] = peer_id

\* self.neighbors.iter().position(|&x| x == v): the first index holding v,
\* 0 when there is none.
position(s, v) ==
    IF \E i \in Slots : s.neighbors[i] = v
    THEN CHOOSE i \in Slots :
            s.neighbors[i] = v /\ \A j \in Slots : j < i => s.neighbors[j] # v
    ELSE 0

\* add_neighbor without the check that the peer is already present.
add_neighbor_mut_nodup(s, peer_id) ==
    LET index == position(s, NoPeer) IN
    IF index = 0 THEN [peer |-> s, res |-> "MaxNeighboursReached"]
    ELSE [peer |-> [s EXCEPT !.neighbors[index] = peer_id], res |-> "Ok"]

\* add_neighbor without room evicting the last slot instead of failing.
add_neighbor_mut_evict(s, peer_id) ==
    IF contains(s, peer_id) THEN [peer |-> s, res |-> "Ok"]
    ELSE LET index == position(s, NoPeer) IN
         IF index = 0
         THEN [peer |-> [s EXCEPT !.neighbors[MAX_NEIGHBORS] = peer_id], res |-> "Ok"]
         ELSE [peer |-> [s EXCEPT !.neighbors[index] = peer_id], res |-> "Ok"]

\* Peer::add_neighbor: Ok when present; else the first empty slot, or
\* MaxNeighboursReached when there is none.
add_neighbor(s, peer_id) ==
    IF contains(s, peer_id) THEN [peer |-> s, res |-> "Ok"]
    ELSE LET index == position(s, NoPeer) IN
         IF index = 0 THEN [peer |-> s, res |-> "MaxNeighboursReached"]
         ELSE [peer |-> [s EXCEPT !.neighbors[index] = peer_id], res |-> "Ok"]

\* remove_neighbor taking index 0 of position() for "not found": a peer in
\* the first slot is never removed.
remove_neighbor_mut_skip_first(s, peer_id) ==
    LET index == position(s, peer_id) IN
    IF index > 1 THEN [s EXCEPT !.neighbors[index] = NoPeer] ELSE s

\* remove_neighbor forgetting the peer altogether: its keys, its score and
\* the cached opinions keyed by it go with the slot.
remove_neighbor_mut_purge(s, peer_id) ==
    LET index == position(s, peer_id)
        keep(cache) == [key \in {x \in DOMAIN cache : x[1] # peer_id} |-> cache[key]]
    IN [s EXCEPT !.neighbors = IF index # 0 THEN [@ EXCEPT ![index] = NoPeer] ELSE @,
                 !.pubkeys[peer_id] = NoKey,
                 !.pubkeys_native[peer_id] = NoKey,
                 !.neighbor_scores[peer_id] = 0,
                 !.cached_neighbor_opinion = keep(@),
                 !.cached_local_opinion = keep(@)]

\* remove_neighbor closing the hole: the peers above move down one slot.
remove_neighbor_mut_compact(s, peer_id) ==
    LET index == position(s, peer_id) IN
    IF index = 0 THEN s
    ELSE [s EXCEPT !.neighbors =
            [i \in Slots |-> IF i < index THEN s.neighbors[i]
                             ELSE IF i < MAX_NEIGHBORS THEN s.neighbors[i + 1]
                             ELSE NoPeer]]

\* Peer::remove_neighbor: clears the first slot holding peer_id, if any.
remove_neighbor(s, peer_id) ==
    LET index == position(s, peer_id) IN
    IF index # 0 THEN [s EXCEPT !.neighbors[index] = NoPeer] ELSE s

\* Peer::neighbors: the filled slots, in slot order.
RECURSIVE FilterSlots(_, _)
FilterSlots(s, i) ==
    IF i > MAX_NEIGHBORS THEN <<>>
    ELSE (IF s.neighbors[i] = NoPeer THEN <<>> ELSE <<s.neighbors[i]>>)
         \o FilterSlots(s, i + 1)

neighbors(s) == FilterSlots(s, 1)

\* Peer::identify_neighbor_native: HashMap::insert, overwriting.
identify_neighbor_native(s, peer_id, pubkey) ==
    [s EXCEPT !.pubkeys_native[peer_id] = pubkey]

\* Peer::identify_neighbor: HashMap::insert, overwriting.
identify_neighbor(s, peer_id, pubkey) == [s EXCEPT !.pubkeys[peer_id] = pubkey]

\* set_score adding the score to the one already set.
set_score_mut_accumulate(s, peer_id, score) ==
    [s EXCEPT !.neighbor_scores[peer_id] = @ + score]

\* Peer::set_score: HashMap::insert, overwriting.
set_score(s, peer_id, score) == [s EXCEPT !.neighbor_scores[peer_id] = score]

\* Peer::get_pub_key
get_pub_key(s, peer_id) == s.pubkeys[peer_id]

\* HashMap::insert(key, value): the map with key bound to value, whether or
\* not key was bound before.
Insert(map, key, value) ==
    [x \in (DOMAIN map) \cup {key} |-> IF x = key THEN value ELSE map[x]]

\* Peer::get_local_opinion / get_neighbor_opinion: the entry, or
\* Opinion::empty() when the key is missing.
get_local_opinion(s, key) ==
    IF key \in DOMAIN s.cached_local_opinion
    THEN s.cached_local_opinion[key] ELSE Opinion_empty

\* get_neighbor_opinion reading the cache of the local opinions.
get_neighbor_opinion_mut_local(s, key) == get_local_opinion(s, key)

get_neighbor_opinion(s, key) ==
    IF key \in DOMAIN s.cached_neighbor_opinion
    THEN s.cached_neighbor_opinion[key] ELSE Opinion_empty

\* Peer::cache_local_opinion / cache_neighbor_opinion
cache_local_opinion(s, key, opinion) ==
    [s EXCEPT !.cached_local_opinion = Insert(@, key, opinion)]

\* cache_neighbor_opinion filing every opinion under the genesis epoch.
cache_neighbor_opinion_mut_genesis(s, key, opinion) ==
    [s EXCEPT !.cached_neighbor_opinion = Insert(@, <<key[1], GENESIS_EPOCH>>, opinion)]

cache_neighbor_opinion(s, key, opinion) ==
    [s EXCEPT !.cached_neighbor_opinion = Insert(@, key, opinion)]

\* slot_opinion without the verification: every cached op counts.
slot_opinion_mut_no_verify(s, peer, k) ==
    IF peer = NoPeer \/ get_pub_key(s, peer) = NoKey THEN FZero
    ELSE get_neighbor_opinion(s, <<peer, k>>).op

\* The value one slot contributes to get_neighbor_opinions_at(k): the op of
\* the cached inbound opinion when the slot's peer has a known pubkey and the
\* opinion verifies under it, 0.0 otherwise.
slot_opinion(s, peer, k) ==
    IF peer = NoPeer \/ get_pub_key(s, peer) = NoKey THEN FZero
    ELSE LET opinion == get_neighbor_opinion(s, <<peer, k>>) IN
         IF Opinion_verify(opinion, get_pub_key(s, peer), s.keypair) = "Ok(true)"
         THEN opinion.op ELSE FZero

\* Peer::get_neighbor_opinions_at: self.neighbors.map(..), slot by slot.
get_neighbor_opinions_at(s, k) ==
    [i \in Slots |-> slot_opinion(s, s.neighbors[i], k)]

\* global_trust_score_at reading the opinions of the epoch itself.
global_trust_score_at_mut_same_epoch(s, at) ==
    FoldAdd(get_neighbor_opinions_at(s, at), 1, MIN_SCORE)

\* Peer::global_trust_score_at: the fold of the previous epoch's opinions,
\* starting from MIN_SCORE.
global_trust_score_at(s, at) ==
    FoldAdd(get_neighbor_opinions_at(s, previous(at)), 1, MIN_SCORE)

RECURSIVE SumScores(_, _)
SumScores(s, i) ==
    IF i > MAX_NEIGHBORS THEN 0
    ELSE (IF s.neighbors[i] = NoPeer THEN 0 ELSE s.neighbor_scores[s.neighbors[i]])
         + SumScores(s, i + 1)

\* Peer::get_sum_of_scores: the scores of the peers in neighbors().
get_sum_of_scores(s) == SumScores(s, 1)

\* get_normalized_score dividing by the scores set for every peer id, the
\* removed neighbors included.
get_normalized_score_mut_all_scores(s, score) ==
    FDiv(FromInt(score),
         FromInt(s.neighbor_scores[1] + s.neighbor_scores[2]
                 + SumScores([s EXCEPT !.neighbors = [i \in Slots |-> NoPeer]], 1)))

\* Peer::get_normalized_score: f64::from(score) / f64::from(sum).
get_normalized_score(s, score) == FDiv(FromInt(score), FromInt(get_sum_of_scores(s)))

\* The branch calculate_local_opinion(peer_id, k) takes in state s.
calculate_branch(s, peer_id, k) ==
    IF <<peer_id, k>> \in DOMAIN s.cached_local_opinion THEN "cached"
    ELSE IF s.neighbor_scores[peer_id] = 0 THEN "zero_score"
    ELSE IF get_pub_key(s, peer_id) = NoKey THEN "no_pubkey"
    ELSE IF Opinion_generate(s.keypair, get_pub_key(s, peer_id), k,
                             get_neighbor_opinions_at(s, previous(k)),
                             get_normalized_score(s, s.neighbor_scores[peer_id])).ok
         THEN "generated" ELSE "generate_failed"

\* calculate_local_opinion caching its result with cache_neighbor_opinion.
calculate_local_opinion_mut_wrong_cache(s, peer_id, k) ==
    IF <<peer_id, k>> \in DOMAIN s.cached_local_opinion THEN s
    ELSE LET score == s.neighbor_scores[peer_id] IN
         IF score = 0 THEN s
         ELSE LET op_ji == get_neighbor_opinions_at(s, previous(k))
                  normalized_score == get_normalized_score(s, score)
                  pubkey_op == get_pub_key(s, peer_id)
                  generated == Opinion_generate(s.keypair, pubkey_op, k, op_ji, normalized_score)
                  opinion == IF pubkey_op # NoKey /\ generated.ok
                             THEN generated.opinion ELSE Opinion_empty
              IN cache_neighbor_opinion(s, <<peer_id, opinion.epoch>>, opinion)

\* calculate_local_opinion substituting, for a missing pubkey or a failed
\* generation, an opinion without proof that carries the epoch k.
calculate_local_opinion_mut_stamped(s, peer_id, k) ==
    IF <<peer_id, k>> \in DOMAIN s.cached_local_opinion THEN s
    ELSE LET score == s.neighbor_scores[peer_id] IN
         IF score = 0 THEN s
         ELSE LET op_ji == get_neighbor_opinions_at(s, previous(k))
                  normalized_score == get_normalized_score(s, score)
                  pubkey_op == get_pub_key(s, peer_id)
                  generated == Opinion_generate(s.keypair, pubkey_op, k, op_ji, normalized_score)
                  opinion == IF pubkey_op # NoKey /\ generated.ok
                             THEN generated.opinion ELSE Opinion_new(k, FZero, NoKey)
              IN cache_local_opinion(s, <<peer_id, opinion.epoch>>, opinion)

\* Peer::calculate_local_opinion: nothing when (peer_id, k) is cached or the
\* score is 0; otherwise the generated opinion, or the empty one when the
\* pubkey is missing or generation fails, is cached under
\* (peer_id, opinion.epoch).
calculate_local_opinion(s, peer_id, k) ==
    IF <<peer_id, k>> \in DOMAIN s.cached_local_opinion THEN s
    ELSE LET score == s.neighbor_scores[peer_id] IN
         IF score = 0 THEN s
         ELSE LET op_ji == get_neighbor_opinions_at(s, previous(k))
                  normalized_score == get_normalized_score(s, score)
                  pubkey_op == get_pub_key(s, peer_id)
                  generated == Opinion_generate(s.keypair, pubkey_op, k, op_ji, normalized_score)
                  opinion == IF pubkey_op # NoKey /\ generated.ok
                             THEN generated.opinion ELSE Opinion_empty
              IN cache_local_opinion(s, <<peer_id, opinion.epoch>>, opinion)

\* ------------------------------------------------------------- inputs
\* The op values an inbound opinion carries: one inside [0, 1] and one
\* above MAX_NEIGHBORS.
WireOps == {Frac(1, 5), FromInt(MAX_NEIGHBORS + 1)}
\* The opinions a neighbor sends, and the ones handed to cache_*_opinion: a
\* proof made with key 1, or a blob no key made.
WireOpinions ==
    {Opinion_new(e, v, pr) : e \in Epochs, v \in WireOps, pr \in {NoKey, 1}}
\* The inbound opinions of the runs that calculate local opinions: proved
\* with key 1, with an op inside [0, 1].
ProvedOpinions == {Opinion_new(e, Frac(1, 25), 1) : e \in Epochs}
\* The opinions a calculation of a local opinion reads: from the first
\* neighbor an op inside [0, 1], from the others that one or an op far above
\* the range, which the code takes as it is.
InboundOps(p) == IF p = 1 THEN {Frac(1, 25)} ELSE {Frac(1, 25), FromInt(10000000)}
InboundOpinions(p) == {Opinion_new(e, v, 1) : e \in 0 .. MaxEpoch - 1, v \in InboundOps(p)}
\* The proved opinions of the last epoch.
LatestOpinions == {o \in ProvedOpinions : o.epoch = MaxEpoch}
\* The opinions a proof of key 1 comes with.
SignedOpinions == {o \in WireOpinions : o.proof = 1}
\* The peers that can all be neighbors at once.
TablePeers == 1 .. MAX_NEIGHBORS

\* ------------------------------------------- the managers (src/manager.rs)
\* The keys of the peers and managers of the sharded design.
ManagerKeys == 0 .. MaxKey

FOne == FromInt(1)

\* BTreeMap::get(key).unwrap_or(default)
GetOr(map, key, default) == IF key \in DOMAIN map THEN map[key] ELSE default

\* Manager::new: the global trust scores start as the pre-trust scores.
Manager_new(index, pre_trust_scores) ==
    [index |-> index,
     global_trust_scores |-> pre_trust_scores,
     pre_trust_scores |-> pre_trust_scores,
     children_states |-> <<>>,
     children |-> <<>>]

\* Manager::add_child
Manager_add_child(m, child) == [m EXCEPT !.children = Append(@, child)]

\* Manager::get_global_trust_score_for
Manager_get_global_trust_score_for(m, index) == GetOr(m.global_trust_scores, index, FZero)

\* Manager::get_children
Manager_get_children(m) == m.children

\* Manager::is_converged
Manager_is_converged(m) ==
    \A i \in DOMAIN m.children : GetOr(m.children_states, m.children[i], FALSE)

\* Manager::reset
Manager_reset(m) == [m EXCEPT !.children_states = <<>>]

\* A peer of the sharded design: its local trust towards every peer and
\* its own pre-trust score.
Peer_get_local_trust_score(p, index) == GetOr(p.local_trust_scores, index, FZero)
Peer_get_pre_trust_score(p) == p.pre_trust_score

\* The manager the tree finds for the i-th hash of index (hash = hash.hash();
\* manager_tree.search(hash)): the tree with the hash chain is the function
\* from a key to the managers its hashes reach, NoManager where the search
\* fails.
NoManager == -1
KdTree_search(manager_tree, index, i) ==
    IF index \in DOMAIN manager_tree /\ i \in DOMAIN manager_tree[index]
    THEN manager_tree[index][i] ELSE NoManager

\* The loop of calculate_global_trust_score_for from its i-th iteration, with
\* the votes counted so far.
RECURSIVE VoteFrom(_, _, _, _, _, _, _)
VoteFrom(i, scores, index, managers, manager_tree, num_managers, majority) ==
    IF i > num_managers THEN [ok |-> FALSE, err |-> "GlobalTrustCalculationFailed"]
    ELSE LET manager_key == KdTree_search(manager_tree, index, i)
         IN IF manager_key \notin DOMAIN managers
            THEN [ok |-> FALSE, err |-> "PeerNotFound"]
            ELSE LET score == Manager_get_global_trust_score_for(managers[manager_key], index)
                     count == GetOr(scores, score, 0) + 1
                 IN IF count > majority THEN [ok |-> TRUE, score |-> score]
                    ELSE VoteFrom(i + 1, Insert(scores, score, count), index, managers,
                                  manager_tree, num_managers, majority)

\* Manager::calculate_global_trust_score_for
Manager_calculate_global_trust_score_for(index, managers, manager_tree, num_managers) ==
    LET majority == (num_managers \div 3) * 2
    IN VoteFrom(1, <<>>, index, managers, manager_tree, num_managers, majority)

\* The keys of a BTreeMap in iteration order, from key lo on.
RECURSIVE KeysFrom(_, _)
KeysFrom(map, lo) ==
    IF \A k \in DOMAIN map : k < lo THEN <<>>
    ELSE LET next == CHOOSE k \in DOMAIN map : k >= lo /\ \A j \in DOMAIN map : j >= lo => k <= j
         IN <<next>> \o KeysFrom(map, next + 1)

\* The first failure among the votes for the keys, or every voted score.
RECURSIVE CacheVotes(_, _, _, _, _)
CacheVotes(keys, cached, managers, manager_tree, num_managers) ==
    IF keys = <<>> THEN [ok |-> TRUE, cached_global_scores |-> cached]
    ELSE LET vote == Manager_calculate_global_trust_score_for(Head(keys), managers,
                                                               manager_tree, num_managers)
         IN IF ~vote.ok THEN vote
            ELSE CacheVotes(Tail(keys), Insert(cached, Head(keys), vote.score),
                            managers, manager_tree, num_managers)

\* The loop over the neighbors of heartbeat_child, from the values
\* new_global_trust_score can have so far: the opinion of each peer other
\* than index, weighted by the voted score of the peer, is added in the
\* order of the keys.  The values new_global_trust_score can end with.
RECURSIVE SumOpinions(_, _, _, _, _)
SumOpinions(keys, index, peers, cached_global_scores, new_global_trust_scores) ==
    IF keys = <<>> THEN new_global_trust_scores
    ELSE SumOpinions(Tail(keys), index, peers, cached_global_scores,
             IF index = Head(keys) THEN new_global_trust_scores
             ELSE UNION {FAddEither(new_global_trust_score, neighbor_opinion) :
                            new_global_trust_score \in new_global_trust_scores,
                            neighbor_opinion \in
                                FMulEither(Peer_get_local_trust_score(peers[Head(keys)], index),
                                           cached_global_scores[Head(keys)])})

\* (1 - a) * t_i + a * p_i for every t_i the loop can have ended with
BlendScores(sums, pre_trust_weight, pre_trust_score) ==
    UNION {FAddEither(weighted, pre_trusted) :
              weighted \in UNION {FMulEither(FSub(FOne, pre_trust_weight), t_i) : t_i \in sums},
              pre_trusted \in FMulEither(pre_trust_weight, pre_trust_score)}

\* The end of heartbeat_child: the child is marked converged when the score
\* moved by at most delta, and the new score is stored.
StoreScore(m, index, new_global_trust_score, delta) ==
    [m |-> [m EXCEPT !.children_states =
                         IF FLeq(FAbs(FSub(new_global_trust_score,
                                           Manager_get_global_trust_score_for(m, index))),
                                 delta)
                         THEN Insert(@, index, TRUE) ELSE @,
                     !.global_trust_scores = Insert(@, index, new_global_trust_score)],
     res |-> "Ok"]

\* heartbeat_child after the votes were taken: the error of the first vote
\* that failed, or the child scored from the votes.
HeartbeatVoted(m, index, peers, votes, delta, pre_trust_weight) ==
    IF ~votes.ok THEN {[m |-> m, res |-> votes.err]}
    ELSE IF index \notin DOMAIN peers THEN {[m |-> m, res |-> "PeerNotFound"]}
    ELSE {StoreScore(m, index, new_global_trust_score, delta) :
             new_global_trust_score \in
                 BlendScores(SumOpinions(KeysFrom(peers, 0), index, peers,
                                         votes.cached_global_scores, {FZero}),
                             pre_trust_weight, Peer_get_pre_trust_score(peers[index]))}

\* heartbeat_child with the child's own opinion of itself in the sum.
Manager_heartbeat_child_mut_self_opinion(m, index, peers, managers, manager_tree, delta, pre_trust_weight, num_managers) ==
    LET votes == CacheVotes(KeysFrom(peers, 0), <<>>, managers, manager_tree, num_managers)
    IN IF GetOr(m.children_states, index, FALSE) THEN {[m |-> m, res |-> "Ok"]}
       ELSE IF ~votes.ok THEN {[m |-> m, res |-> votes.err]}
       ELSE IF index \notin DOMAIN peers THEN {[m |-> m, res |-> "PeerNotFound"]}
       ELSE {StoreScore(m, index, new_global_trust_score, delta) :
                new_global_trust_score \in
                    BlendScores(UNION {FAddEither(t_i, own) :
                                          t_i \in SumOpinions(KeysFrom(peers, 0), index, peers,
                                                              votes.cached_global_scores,
                                                              {FZero}),
                                          own \in FMulEither(
                                                     Peer_get_local_trust_score(peers[index], index),
                                                     votes.cached_global_scores[index])},
                                pre_trust_weight, Peer_get_pre_trust_score(peers[index]))}

\* heartbeat_child that works out a converged child again.
Manager_heartbeat_child_mut_no_freeze(m, index, peers, managers, manager_tree, delta, pre_trust_weight, num_managers) ==
    HeartbeatVoted(m, index, peers,
                   CacheVotes(KeysFrom(peers, 0), <<>>, managers, manager_tree, num_managers),
                   delta, pre_trust_weight)

\* Manager::heartbeat_child: the manager afterwards and the result, for
\* every value the build can give the sums and products of NaNs.
Manager_heartbeat_child(m, index, peers, managers, manager_tree, delta, pre_trust_weight, num_managers) ==
    IF GetOr(m.children_states, index, FALSE) THEN {[m |-> m, res |-> "Ok"]}
    ELSE HeartbeatVoted(m, index, peers,
                        CacheVotes(KeysFrom(peers, 0), <<>>, managers, manager_tree,
                                   num_managers),
                        delta, pre_trust_weight)

\* The loop of heartbeat over the children left: it stops at the first
\* error, keeping what the earlier children changed.
RECURSIVE HeartbeatFrom(_, _, _, _, _, _, _, _)
HeartbeatFrom(m, children, peers, managers, manager_tree, delta, pre_trust_weight, num_managers) ==
    IF children = <<>> THEN {[m |-> m, res |-> "Ok"]}
    ELSE UNION {IF beat.res # "Ok" THEN {beat}
                ELSE HeartbeatFrom(beat.m, Tail(children), peers, managers, manager_tree,
                                   delta, pre_trust_weight, num_managers) :
                   beat \in Manager_heartbeat_child(m, Head(children), peers, managers,
                                                    manager_tree, delta, pre_trust_weight,
                                                    num_managers)}

\* Manager::heartbeat, over a clone of the children
Manager_heartbeat(m, peers, managers, manager_tree, delta, pre_trust_weight, num_managers) ==
    HeartbeatFrom(m, m.children, peers, managers, manager_tree, delta, pre_trust_weight,
                  num_managers)

\* -------------------------------------------------------------- state
VARIABLES
    peer,   \* the Peer struct of the node
    last,   \* the last call or event observed: its arguments and what it returned
    node,   \* the driver of the node: main_loop's locals, its timer and its swarm
    remote, \* a second node, connected to this one: its Peer and its swarm
    manager \* a Manager of the sharded design (src/manager.rs) and its calls so far

vars == <<peer, last, node, remote, manager>>

\* What a direct call of a Peer method leaves alone.
driver == <<node, remote, manager>>

Call(op, peer_id, k, res, out) ==
    [op |-> op, peer_id |-> peer_id, k |-> k, res |-> res, out |-> out]

\* A call whose arguments and result no property of the run reads.
Unobserved == last' = Call("unobserved", NoPeer, GENESIS_EPOCH, "Ok", <<>>)

\* Node::new: main_loop not called yet, nothing queued.  interval_limit is
\* an Option: <<>> for None, <<n>> for Some(n).  clock is the epoch of the
\* system time (-1: before genesis), ticks the interval ticks that fired and
\* are not handled yet, events the swarm events not handled yet, handled
\* the ticks handled so far, requested the epochs send_epoch_requests was
\* called with.  connections counts the connections the swarm holds open
\* with each peer, admitted the connected peers add_neighbor gave a slot.
Node_new ==
    [pc |-> "new", interval_limit |-> <<>>, count |-> 0, handled |-> 0,
     clock |-> GENESIS_EPOCH, ticks |-> 0, events |-> <<>>, requested |-> {},
     connections |-> [p \in PeerIds |-> 0], admitted |-> {}]

Remote_new == [peer |-> Peer_of(RemoteKey), events |-> <<>>, requested |-> {}]

Init ==
    /\ peer = Peer_new
    /\ last = Call("new", NoPeer, GENESIS_EPOCH, "Ok", <<>>)
    /\ node = Node_new
    /\ remote = Remote_new
    /\ manager = [state |-> Manager_new(0, <<>>), calls |-> 0]

\* A cache holds at most max entries in the model.
HasRoom(cache, key, max) == key \in DOMAIN cache \/ Cardinality(DOMAIN cache) < max

\* The entry under key, as HashMap::insert returns it: <<>> for None.
Entry(cache, key) == IF key \in DOMAIN cache THEN <<cache[key]>> ELSE <<>>

\* ------------------------------------------------------- Peer methods
AddNeighbor(p) == peer' = add_neighbor(peer, p).peer /\ UNCHANGED driver

\* out holds the neighbors array before the call.
AddNeighborObserved(p) ==
    /\ AddNeighbor(p)
    /\ last' = Call("add_neighbor", p, GENESIS_EPOCH, add_neighbor(peer, p).res,
                    <<peer.neighbors>>)

RemoveNeighbor(p) == peer' = remove_neighbor(peer, p) /\ UNCHANGED driver

\* out holds the neighbors array and the Peer before the call.
RemoveNeighborObserved(p) ==
    /\ RemoveNeighbor(p)
    /\ last' = Call("remove_neighbor", p, GENESIS_EPOCH, "Ok", <<peer.neighbors, peer>>)

IdentifyNeighborNative(p, pubkey) == peer' = identify_neighbor_native(peer, p, pubkey) /\ UNCHANGED driver

IdentifyNeighbor(p, pubkey) == peer' = identify_neighbor(peer, p, pubkey) /\ UNCHANGED driver

SetScore(p, score) == peer' = set_score(peer, p, score) /\ UNCHANGED driver

\* res is the branch taken, out the local-cache entry under (p, k) before.
\* The call is made while what it caches fits into MaxCached entries.
CalculateLocalOpinion(p, k) ==
    LET after == calculate_local_opinion(peer, p, k) IN
    /\ Cardinality(DOMAIN after.cached_local_opinion) <= MaxCached
    /\ peer' = after
    /\ UNCHANGED driver
    /\ last' = Call("calculate_local_opinion", p, k, calculate_branch(peer, p, k),
                    Entry(peer.cached_local_opinion, <<p, k>>))

\* out holds the value HashMap::insert returns: the opinion replaced, if any.
CacheLocalOpinion(p, opinion) ==
    LET key == <<p, opinion.epoch>> IN
    /\ HasRoom(peer.cached_local_opinion, key, MaxCached)
    /\ peer' = cache_local_opinion(peer, key, opinion)
    /\ UNCHANGED driver
    /\ last' = Call("cache_local_opinion", p, opinion.epoch, "Ok",
                    Entry(peer.cached_local_opinion, key))

\* cache_neighbor_opinion called with the key (p, GENESIS_EPOCH), whatever
\* epoch the opinion carries.
CacheNeighborOpinion_mut_genesis_key(p, opinion, max) ==
    LET key == <<p, GENESIS_EPOCH>> IN
    /\ HasRoom(peer.cached_neighbor_opinion, key, max)
    /\ peer' = cache_neighbor_opinion(peer, key, opinion)
    /\ UNCHANGED driver

CacheNeighborOpinion(p, opinion, max) ==
    LET key == <<p, opinion.epoch>> IN
    /\ HasRoom(peer.cached_neighbor_opinion, key, max)
    /\ peer' = cache_neighbor_opinion(peer, key, opinion)
    /\ UNCHANGED driver

CacheNeighborOpinionObserved(p, opinion, max) ==
    /\ CacheNeighborOpinion(p, opinion, max)
    /\ last' = Call("cache_neighbor_opinion", p, opinion.epoch, "Ok",
                    Entry(peer.cached_neighbor_opinion, <<p, opinion.epoch>>))

\* out is the array returned.
GetNeighborOpinionsAt(k) ==
    /\ UNCHANGED <<peer, driver>>
    /\ last' = Call("get_neighbor_opinions_at", NoPeer, k, "Ok",
                    get_neighbor_opinions_at(peer, k))

\* out holds the score returned and the Peer the call was made on.
GlobalTrustScoreAt(k) ==
    /\ UNCHANGED <<peer, driver>>
    /\ last' = Call("global_trust_score_at", NoPeer, k, "Ok",
                    <<global_trust_score_at(peer, k), peer>>)

\* ------------------------------------------------------------- driver
\* Node::handle_req_res_events, Request::Opinion(epoch) from p: calculate,
\* read the local cache, send Response::Opinion.  res is the branch the
\* calculation took, out holds the responses sent.
HandleOpinionRequest(p, epoch) ==
    LET after == calculate_local_opinion(peer, p, epoch)
        opinion == get_local_opinion(after, <<p, epoch>>)
    IN /\ Cardinality(DOMAIN after.cached_local_opinion) <= MaxCached
       /\ peer' = after
       /\ UNCHANGED driver
       /\ last' = Call("Request::Opinion", p, epoch, calculate_branch(peer, p, epoch),
                       <<[type |-> "Response::Opinion", opinion |-> opinion]>>)

\* Node::handle_req_res_events, Response::Opinion(opinion) from p.  out
\* holds the opinion received.
HandleOpinionResponse(p, opinion) ==
    /\ CacheNeighborOpinion(p, opinion, MaxCached)
    /\ last' = Call("Response::Opinion", p, opinion.epoch, "Ok", <<opinion>>)

\* Node::send_epoch_requests asking for the epoch before the one passed.
send_epoch_requests_mut_previous(s, epoch) ==
    [i \in 1 .. Len(neighbors(s)) |->
        [to |-> neighbors(s)[i], type |-> "Request::Opinion", arg |-> previous(epoch)]]

\* Node::send_epoch_requests: the requests sent, one Request::Opinion(epoch)
\* to each peer of neighbors(), in that order.
send_epoch_requests(s, epoch) ==
    [i \in 1 .. Len(neighbors(s)) |->
        [to |-> neighbors(s)[i], type |-> "Request::Opinion", arg |-> epoch]]

\* Pubkey::from_keypair: the application pubkey of a keypair.
Pubkey_from_keypair(keypair) == keypair

\* The keypairs for which Pubkey::from_keypair returns an error.  Which ones
\* do is decided by the key material, which is not modelled; the last key
\* stands for them.
PubkeyFails(keypair) == keypair = NumKeys

\* handle_swarm_events treating a failed request as a closed connection.
handle_swarm_events_mut_drop_on_failure(s, event) ==
    LET p == event.peer_id IN
    CASE event.type = "ConnectionEstablished" ->
            [peer |-> add_neighbor(s, p).peer, sent |-> <<>>]
      [] event.type \in {"ConnectionClosed", "OutboundFailure"} ->
            [peer |-> remove_neighbor(s, p), sent |-> <<>>]
      [] event.type = "Response::Opinion" ->
            [peer |-> cache_neighbor_opinion(s, <<p, event.arg.epoch>>, event.arg),
             sent |-> <<>>]
      [] OTHER -> [peer |-> s, sent |-> <<>>]

\* handle_swarm_events recording the transport key of an identify event in
\* the application pubkey map.
handle_swarm_events_mut_native_as_app(s, event) ==
    LET p == event.peer_id IN
    CASE event.type = "Identify::Received" ->
            [peer |-> identify_neighbor(s, p, event.arg), sent |-> <<>>]
      [] event.type \in {"Request::Identify", "Response::Identify"} ->
            [peer |-> identify_neighbor(s, p, event.arg), sent |-> <<>>]
      [] event.type = "ConnectionEstablished" ->
            [peer |-> add_neighbor(s, p).peer, sent |-> <<>>]
      [] OTHER -> [peer |-> s, sent |-> <<>>]

\* handle_swarm_events answering an Identify request without recording the
\* pubkey it carries.
handle_swarm_events_mut_no_record(s, event) ==
    LET p == event.peer_id IN
    CASE event.type = "Request::Identify" ->
            [peer |-> s,
             sent |-> <<[to |-> p, type |-> "Response::Identify",
                         arg |-> Pubkey_from_keypair(s.keypair)]>>]
      [] event.type = "ConnectionEstablished" ->
            [peer |-> add_neighbor(s, p).peer, sent |-> <<>>]
      [] event.type = "ConnectionClosed" ->
            [peer |-> remove_neighbor(s, p), sent |-> <<>>]
      [] OTHER -> [peer |-> s, sent |-> <<>>]

\* Node::handle_swarm_events (with handle_req_res_events and
\* handle_identify_events) on the Peer s: the Peer after the event and the
\* responses sent.  Every other event is only logged.
handle_swarm_events(s, event) ==
    LET p == event.peer_id IN
    CASE event.type = "ConnectionEstablished" ->
            [peer |-> add_neighbor(s, p).peer, sent |-> <<>>]
      [] event.type = "ConnectionClosed" ->
            [peer |-> remove_neighbor(s, p), sent |-> <<>>]
      [] event.type = "Identify::Received" ->
            [peer |-> identify_neighbor_native(s, p, event.arg), sent |-> <<>>]
      [] event.type = "Request::Opinion" ->
            LET after == calculate_local_opinion(s, p, event.arg) IN
            [peer |-> after,
             sent |-> <<[to |-> p, type |-> "Response::Opinion",
                         arg |-> get_local_opinion(after, <<p, event.arg>>)]>>]
      [] event.type = "Request::Identify" ->
            [peer |-> identify_neighbor(s, p, event.arg),
             sent |-> IF PubkeyFails(s.keypair)
                      THEN <<[to |-> p, type |-> "Response::InternalError",
                              arg |-> "InvalidPubkey"]>>
                      ELSE <<[to |-> p, type |-> "Response::Identify",
                              arg |-> Pubkey_from_keypair(s.keypair)]>>]
      [] event.type = "Response::Opinion" ->
            [peer |-> cache_neighbor_opinion(s, <<p, event.arg.epoch>>, event.arg),
             sent |-> <<>>]
      [] event.type = "Response::Identify" ->
            [peer |-> identify_neighbor(s, p, event.arg), sent |-> <<>>]
      [] OTHER -> [peer |-> s, sent |-> <<>>]

\* -------------------------------------------------------------- Epoch
\* Epoch::secs_until_next_epoch when it rounds to a multiple of the interval
\* with a remainder: 0 at an epoch boundary.
Epoch_secs_until_next_epoch_mut_boundary(interval, genesis, now) ==
    IF now < genesis THEN [ok |-> FALSE, secs |-> 0]
    ELSE [ok |-> TRUE, secs |-> (interval - ((now - genesis) % interval)) % interval]

\* Epoch::secs_until_next_epoch(interval) read at system time now with the
\* genesis timestamp genesis: I - ((now - G) mod I), EpochError when the
\* clock is before genesis.
Epoch_secs_until_next_epoch(interval, genesis, now) ==
    IF now < genesis THEN [ok |-> FALSE, secs |-> 0]
    ELSE [ok |-> TRUE, secs |-> interval - ((now - genesis) % interval)]

\* Epoch::current_epoch(interval) read at system time now:
\* floor((now - G) / I), EpochError when the clock is before genesis.
Epoch_current_epoch(interval, genesis, now) ==
    IF now < genesis THEN [ok |-> FALSE, epoch |-> GENESIS_EPOCH]
    ELSE [ok |-> TRUE, epoch |-> (now - genesis) \div interval]

\* ---------------------------------------------------------- main_loop
\* main_loop(interval_limit) called at system time now: EpochError when
\* the clock is before genesis, else the interval timer is set up and the
\* loop starts with count = 0.
MainLoop(interval_limit, now) ==
    /\ node.pc = "new"
    /\ node' = [node EXCEPT !.pc = IF Epoch_secs_until_next_epoch(1, GENESIS_EPOCH, now).ok
                                         THEN "loop" ELSE "Err(EpochError)",
                            !.interval_limit = interval_limit,
                            !.clock = now]
    /\ last' = Call("main_loop", NoPeer, GENESIS_EPOCH, "Ok", <<>>)
    /\ UNCHANGED <<peer, remote, manager>>

\* The clock reaches the next epoch boundary and the interval timer fires.
TimerFires ==
    /\ node.pc = "loop"
    /\ node.clock < MaxClock
    /\ node' = [node EXCEPT !.clock = @ + 1, !.ticks = @ + 1]
    /\ Unobserved
    /\ UNCHANGED <<peer, remote, manager>>

\* The swarm has an event ready.
SwarmEvent(event) ==
    /\ node.pc = "loop"
    /\ Len(node.events) < MaxQueue
    /\ node' = [node EXCEPT !.events = Append(@, event)]
    /\ Unobserved
    /\ UNCHANGED <<peer, remote, manager>>

\* A tick that takes the genesis epoch when the clock cannot be read and
\* goes on.
HandleTick_mut_ignore_error ==
    /\ node.pc = "loop"
    /\ node.ticks > 0
    /\ LET read == Epoch_current_epoch(1, GENESIS_EPOCH, node.clock)
            current_epoch == read.epoch
       IN /\ node' = [node EXCEPT !.ticks = @ - 1, !.handled = @ + 1,
                                  !.requested = @ \cup {current_epoch}]
          /\ last' = Call("tick", NoPeer, current_epoch, "Ok",
                          send_epoch_requests(peer, current_epoch))
    /\ UNCHANGED <<peer, remote, manager>>

\* A loop iteration whose select! takes the interval branch: the epoch is
\* read from the clock, the requests are sent, and with Some(num) the
\* count goes up and the loop ends when it reaches num.  out holds the
\* requests sent.
HandleTick ==
    /\ node.pc = "loop"
    /\ node.ticks > 0
    /\ LET read == Epoch_current_epoch(1, GENESIS_EPOCH, node.clock)
            current_epoch == read.epoch
            limited == node.interval_limit # <<>>
            count == IF limited THEN node.count + 1 ELSE node.count
       IN IF read.ok
          THEN /\ node' = [node EXCEPT !.ticks = @ - 1, !.handled = @ + 1, !.count = count,
                                       !.requested = @ \cup {current_epoch},
                                       !.pc = IF limited /\ count >= node.interval_limit[1]
                                              THEN "Ok" ELSE "loop"]
               /\ last' = Call("tick", NoPeer, current_epoch, "Ok",
                               send_epoch_requests(peer, current_epoch))
          ELSE /\ node' = [node EXCEPT !.ticks = @ - 1, !.pc = "Err(EpochError)"]
               /\ last' = Call("tick", NoPeer, GENESIS_EPOCH, "Err(EpochError)", <<>>)
    /\ UNCHANGED <<peer, remote, manager>>

\* A loop iteration whose swarm branch returns the error of add_neighbor
\* from main_loop.
HandleSwarmEvent_mut_stop_on_error ==
    /\ node.pc = "loop"
    /\ node.ticks = 0
    /\ node.events # <<>>
    /\ LET event == Head(node.events)
            handled == handle_swarm_events(peer, event)
            failed == /\ event.type = "ConnectionEstablished"
                      /\ add_neighbor(peer, event.peer_id).res # "Ok"
       IN /\ peer' = handled.peer
          /\ node' = [node EXCEPT !.events = Tail(@),
                                  !.pc = IF failed THEN "Err(MaxNeighboursReached)" ELSE @]
          /\ last' = Call(event.type, event.peer_id, GENESIS_EPOCH, "Ok", handled.sent)
    /\ UNCHANGED <<remote, manager>>

\* A loop iteration whose select! takes the swarm branch, whether or not a
\* tick is pending.
HandleSwarmEvent_mut_unbiased ==
    /\ node.pc = "loop"
    /\ node.events # <<>>
    /\ LET event == Head(node.events)
            handled == handle_swarm_events(peer, event)
       IN /\ peer' = handled.peer
          /\ node' = [node EXCEPT !.events = Tail(@)]
          /\ last' = Call(event.type, event.peer_id, GENESIS_EPOCH, "Ok", handled.sent)
    /\ UNCHANGED <<remote, manager>>

\* A loop iteration whose select! takes the swarm branch: biased, it does
\* so only when the interval has no tick ready.  out holds the responses
\* sent.
HandleSwarmEvent ==
    /\ node.pc = "loop"
    /\ node.ticks = 0
    /\ node.events # <<>>
    /\ LET event == Head(node.events)
            handled == handle_swarm_events(peer, event)
       IN /\ peer' = handled.peer
          /\ node' = [node EXCEPT !.events = Tail(@)]
          /\ last' = Call(event.type, event.peer_id, GENESIS_EPOCH, "Ok", handled.sent)
    /\ UNCHANGED <<remote, manager>>

\* ------------------------------------------------------ specifications
\* The neighbor table and the scores.
NextTable ==
    \/ \E p \in PeerIds : AddNeighborObserved(p)
    \/ \E p \in PeerIds : RemoveNeighborObserved(p)
    \/ \E p \in PeerIds, score \in Scores : SetScore(p, score) /\ Unobserved

SpecTable == Init /\ [][NextTable]_vars

\* The two opinion caches.
NextCache ==
    \/ \E p \in TablePeers, o \in WireOpinions : CacheLocalOpinion(p, o)
    \/ \E p \in TablePeers, o \in WireOpinions : CacheNeighborOpinionObserved(p, o, MaxCached)

SpecCache == Init /\ [][NextCache]_vars

\* The inbound opinions and their aggregation.  Every peer connects and
\* disconnects; the peers of TablePeers identify themselves and send opinions.
NextAggregate ==
    \/ \E p \in PeerIds : AddNeighbor(p) /\ Unobserved
    \/ \E p \in PeerIds : RemoveNeighbor(p) /\ Unobserved
    \/ \E p \in TablePeers, pubkey \in Keys : IdentifyNeighbor(p, pubkey) /\ Unobserved
    \/ \E p \in TablePeers, o \in WireOpinions : HandleOpinionResponse(p, o)
    \/ \E k \in Epochs : GetNeighborOpinionsAt(k)
    \/ \E k \in Epochs : GlobalTrustScoreAt(k)

SpecAggregate == Init /\ [][NextAggregate]_vars

\* What remove_neighbor leaves alone: the peers of TablePeers connect,
\* identify themselves with key 1, get the score MaxScore and have opinions
\* cached; any peer is removed.
NextFrame ==
    \/ \E p \in TablePeers : AddNeighbor(p) /\ Unobserved
    \/ \E p \in TablePeers : IdentifyNeighborNative(p, 1) /\ Unobserved
    \/ \E p \in TablePeers : IdentifyNeighbor(p, 1) /\ Unobserved
    \/ \E p \in TablePeers : SetScore(p, MaxScore) /\ Unobserved
    \/ \E p \in TablePeers, o \in LatestOpinions : CacheLocalOpinion(p, o)
    \/ \E p \in TablePeers, o \in LatestOpinions : CacheNeighborOpinionObserved(p, o, MaxCached)
    \/ \E p \in PeerIds : RemoveNeighborObserved(p)

SpecFrame == Init /\ [][NextFrame]_vars

\* No local opinion is cached yet.
BeforeCaching == peer.cached_local_opinion = <<>>

\* The local opinions: their calculation, their cache and the request that
\* asks for one.  The neighbors connect in the order of their ids, identify
\* themselves (with a key for which generation works or with one for which
\* it fails), get their scores and send the opinions that a calculation
\* reads, all before the first local opinion is cached.
NextLocal ==
    \/ \E p \in TablePeers :
          BeforeCaching /\ p = Len(neighbors(peer)) + 1 /\ AddNeighbor(p) /\ Unobserved
    \/ \E p \in TablePeers, pubkey \in {1, NumKeys} :
          BeforeCaching /\ IdentifyNeighbor(p, pubkey) /\ Unobserved
    \/ \E p \in TablePeers, score \in Scores :
          BeforeCaching /\ SetScore(p, score) /\ Unobserved
    \/ \E p \in TablePeers : \E o \in InboundOpinions(p) :
          BeforeCaching /\ CacheNeighborOpinion(p, o, MaxCached) /\ Unobserved
    \/ \E p \in TablePeers, k \in Epochs : CalculateLocalOpinion(p, k)
    \/ \E p \in TablePeers, k \in Epochs : HandleOpinionRequest(p, k)

SpecLocal == Init /\ [][NextLocal]_vars

\* interval_limit: None or Some(n).
Limits == {<<>>} \cup {<<n>> : n \in 0 .. MaxLimit}
\* The connections of the peers opening and closing.
ConnectionEvents ==
    {[type |-> t, peer_id |-> p, arg |-> 0] :
        t \in {"ConnectionEstablished", "ConnectionClosed"}, p \in PeerIds}

\* main_loop: the timer, the swarm and the loop's iterations.
NextDriver ==
    \/ \E limit \in Limits, now \in {-1, GENESIS_EPOCH} : MainLoop(limit, now)
    \/ TimerFires
    \/ \E event \in ConnectionEvents : SwarmEvent(event)
    \/ HandleTick
    \/ HandleSwarmEvent

SpecDriver == Init /\ [][NextDriver]_vars

\* ------------------------------------------------- two connected nodes
\* The local node A (peer, node.events) and the remote node B (remote.peer,
\* remote.events), as in tests::should_handle_request_for_opinion.  The
\* events queue of a node holds what its swarm will yield, in order.
Sides == {"A", "B"}
SidePeer(side) == IF side = "A" THEN peer ELSE remote.peer
SideId(side) == IF side = "A" THEN LocalId ELSE RemoteId
OtherSide(side) == IF side = "A" THEN "B" ELSE "A"
SideEvents(side) == IF side = "A" THEN node.events ELSE remote.events
SideRequested(side) == IF side = "A" THEN node.requested ELSE remote.requested

\* The node of this side becomes (p, events, requested) and the events of
\* the other side's swarm become other_events.
SideUpdate(side, p, events, requested, other_events) ==
    IF side = "A"
    THEN /\ peer' = p
         /\ node' = [node EXCEPT !.events = events, !.requested = requested]
         /\ remote' = [remote EXCEPT !.events = other_events]
         /\ manager' = manager
    ELSE /\ peer' = peer
         /\ remote' = [remote EXCEPT !.peer = p, !.events = events,
                                     !.requested = requested]
         /\ node' = [node EXCEPT !.events = other_events]
         /\ manager' = manager

\* The messages a node sent, as the events the swarm of the receiver yields.
RECURSIVE Delivered(_, _)
Delivered(sent, from) ==
    IF sent = <<>> THEN <<>>
    ELSE <<[type |-> Head(sent).type, peer_id |-> from, arg |-> Head(sent).arg]>>
         \o Delivered(Tail(sent), from)

\* No send_epoch_requests call was made yet.
RoundNotStarted == node.requested = {} /\ remote.requested = {}

\* The swarm of a node reports the connection with the other node
\* (node.rs 479-484).
ExchangeConnect(side) ==
    /\ RoundNotStarted
    /\ SideUpdate(side,
                  handle_swarm_events(SidePeer(side),
                      [type |-> "ConnectionEstablished",
                       peer_id |-> SideId(OtherSide(side)), arg |-> 0]).peer,
                  SideEvents(side), SideRequested(side),
                  SideEvents(OtherSide(side)))
    /\ Unobserved

\* peer.identify_neighbor(other, pubkey) before the round.
ExchangeIdentify(side, pubkey) ==
    /\ RoundNotStarted
    /\ SideUpdate(side,
                  identify_neighbor(SidePeer(side), SideId(OtherSide(side)), pubkey),
                  SideEvents(side), SideRequested(side),
                  SideEvents(OtherSide(side)))
    /\ Unobserved

\* peer.set_score(other, score) before the round (node.rs 491-492).
ExchangeSetScore(side, score) ==
    /\ RoundNotStarted
    /\ SideUpdate(side,
                  set_score(SidePeer(side), SideId(OtherSide(side)), score),
                  SideEvents(side), SideRequested(side),
                  SideEvents(OtherSide(side)))
    /\ Unobserved

\* node.send_epoch_requests(k) (node.rs 497-498): once per node.
ExchangeSendEpochRequests(side, k) ==
    /\ SideRequested(side) = {}
    /\ SideUpdate(side, SidePeer(side), SideEvents(side), {k},
                  SideEvents(OtherSide(side))
                    \o Delivered(send_epoch_requests(SidePeer(side), k), SideId(side)))
    /\ Unobserved

\* node.handle_swarm_events(event) on the next event of a node's swarm
\* (node.rs 504-513); the responses it sends reach the other node.
ExchangeHandle(side) ==
    /\ SideEvents(side) # <<>>
    /\ LET handled == handle_swarm_events(SidePeer(side), Head(SideEvents(side)))
       IN SideUpdate(side, handled.peer, Tail(SideEvents(side)), SideRequested(side),
                     SideEvents(OtherSide(side))
                       \o Delivered(handled.sent, SideId(side)))
    /\ Unobserved

\* Two nodes: their setup, one round of requests and its messages.
NextExchange ==
    \/ \E side \in Sides : ExchangeConnect(side)
    \/ \E side \in Sides, pubkey \in Keys : ExchangeIdentify(side, pubkey)
    \/ \E side \in Sides, score \in Scores : ExchangeSetScore(side, score)
    \/ \E side \in Sides, k \in Epochs : ExchangeSendEpochRequests(side, k)
    \/ \E side \in Sides : ExchangeHandle(side)

SpecExchange == Init /\ [][NextExchange]_vars

\* ------------------------------------------------- events, one by one
\* Node::new(local_key, local_address, ..): InvalidKeypair when the noise
\* keys cannot be authenticated with local_key, KeygenFailed when Peer::new
\* fails, ListenFailed when the swarm cannot listen on the address, in this
\* order; otherwise a node whose Peer holds local_key.
Node_new_result(authentic, keygen, listens) ==
    IF ~authentic THEN "Err(InvalidKeypair)"
    ELSE IF ~keygen THEN "Err(KeygenFailed)"
    ELSE IF ~listens THEN "Err(ListenFailed)"
    ELSE "Ok"

NodeNew(local_key, authentic, keygen, listens) ==
    LET res == Node_new_result(authentic, keygen, listens) IN
    /\ last.op = "new"
    /\ peer' = IF res = "Ok" THEN Peer_of(local_key) ELSE peer
    /\ last' = Call("Node::new", NoPeer, GENESIS_EPOCH, res, <<>>)
    /\ UNCHANGED driver

\* Node::new returned a node.
NodeExists == last.op # "new" /\ ~(last.op = "Node::new" /\ last.res # "Ok")

\* node.handle_swarm_events(event) called with one event, as the tests of
\* node.rs do.  out holds the argument of the event, the messages sent and
\* the pubkey the sender of the event had before it.
HandleEvent(event) ==
    /\ NodeExists
    /\ LET handled == handle_swarm_events(peer, event)
       IN /\ peer' = handled.peer
          /\ last' = Call(event.type, event.peer_id, GENESIS_EPOCH, "Ok",
                          [arg |-> event.arg, sent |-> handled.sent,
                           pubkey_before |-> get_pub_key(peer, event.peer_id)])
    /\ UNCHANGED driver

\* node.send_epoch_requests(k) of a tick.
EventTick(k) ==
    /\ NodeExists
    /\ last' = Call("tick", NoPeer, k, "Ok",
                    [arg |-> k, sent |-> send_epoch_requests(peer, k),
                     pubkey_before |-> NoKey])
    /\ UNCHANGED <<peer, driver>>

\* The events of the given types a swarm yields about the given peers.
EventsOf(types, peers, args) ==
    {[type |-> t, peer_id |-> p, arg |-> a] : t \in types, p \in peers, a \in args}

IdentifyEvents ==
    EventsOf({"Request::Identify", "Response::Identify"}, TablePeers, 1 .. 2)
      \cup EventsOf({"Identify::Received"}, {1}, {1})
LoggedEvents ==
    EventsOf({"Response::InternalError"}, TablePeers, {"InvalidPubkey"})
      \cup EventsOf({"OutboundFailure", "InboundFailure", "ResponseSent"}, TablePeers, {0})
OpinionEvents ==
    EventsOf({"Request::Opinion"}, {1}, {MaxEpoch})
      \cup EventsOf({"Response::Opinion"}, {1}, {Opinion_new(GENESIS_EPOCH, Frac(1, 5), 1)})
TableEvents == EventsOf({"ConnectionEstablished", "ConnectionClosed"}, TablePeers, {0})

\* A node made with a keypair whose pubkey derives or with one whose pubkey
\* does not, then any event, tick or score.
NextEvents ==
    \/ \E local_key \in {LocalKey, NumKeys}, authentic, keygen, listens \in BOOLEAN :
          NodeNew(local_key, authentic, keygen, listens)
    \/ \E event \in IdentifyEvents \cup LoggedEvents \cup OpinionEvents \cup TableEvents :
          HandleEvent(event)
    \/ \E k \in Epochs : EventTick(k)
    \/ NodeExists /\ SetScore(1, MaxScore) /\ Unobserved

SpecEvents == Init /\ [][NextEvents]_vars

\* out holds the opinion returned.
GetLocalOpinion(p, k) ==
    /\ UNCHANGED <<peer, driver>>
    /\ last' = Call("get_local_opinion", p, k, "Ok", <<get_local_opinion(peer, <<p, k>>)>>)

GetNeighborOpinion(p, k) ==
    /\ UNCHANGED <<peer, driver>>
    /\ last' = Call("get_neighbor_opinion", p, k, "Ok",
                    <<get_neighbor_opinion(peer, <<p, k>>)>>)

\* The two caches, written and read.
NextLookup ==
    \/ \E p \in TablePeers, o \in SignedOpinions : CacheLocalOpinion(p, o)
    \/ \E p \in TablePeers, o \in SignedOpinions : CacheNeighborOpinionObserved(p, o, MaxCached)
    \/ \E p \in TablePeers, k \in Epochs : GetLocalOpinion(p, k)
    \/ \E p \in TablePeers, k \in Epochs : GetNeighborOpinion(p, k)

SpecLookup == Init /\ [][NextLookup]_vars

\* ------------------------------------------------------ the epoch clock
\* Both functions of the clock read at the system time now.  out holds the
\* interval, the genesis, the time and the two results.
EpochRead(interval, genesis, now) ==
    /\ last' = Call("Epoch::read", NoPeer, GENESIS_EPOCH, "Ok",
                    [interval |-> interval, genesis |-> genesis, now |-> now,
                     secs |-> Epoch_secs_until_next_epoch(interval, genesis, now),
                     epoch |-> Epoch_current_epoch(interval, genesis, now)])
    /\ UNCHANGED <<peer, driver>>

\* A node reads its clock for the first time, at any time.
EpochFirstRead(interval, genesis, now) ==
    /\ last.op = "new"
    /\ EpochRead(interval, genesis, now)

\* The node reads its clock again, one second later.
EpochNextRead ==
    /\ last.op = "Epoch::read"
    /\ last.out.now < MaxNow
    /\ EpochRead(last.out.interval, last.out.genesis, last.out.now + 1)

NextEpoch ==
    \/ \E interval \in 1 .. MaxInterval, genesis \in 0 .. MaxGenesis, now \in 0 .. MaxNow :
          EpochFirstRead(interval, genesis, now)
    \/ EpochNextRead

SpecEpoch == Init /\ [][NextEpoch]_vars

\* The system time is set back to before genesis while the loop runs.
ClockSetBack ==
    /\ node.pc = "loop"
    /\ node.clock >= GENESIS_EPOCH
    /\ node.ticks + node.handled < MaxClock
    /\ node' = [node EXCEPT !.clock = GENESIS_EPOCH - 1]
    /\ Unobserved
    /\ UNCHANGED <<peer, remote, manager>>

\* main_loop on a machine whose clock may be set back.
NextSkew ==
    \/ \E limit \in Limits, now \in {-1, GENESIS_EPOCH} : MainLoop(limit, now)
    \/ TimerFires
    \/ ClockSetBack
    \/ \E event \in ConnectionEvents : SwarmEvent(event)
    \/ HandleTick
    \/ HandleSwarmEvent

SpecSkew == Init /\ [][NextSkew]_vars

\* --------------------------------------------------------- the error codes
\* EigenError's variants, in the order of the enum.
EigenErrors ==
    <<"InvalidKeypair", "InvalidAddress", "InvalidPubkey", "InvalidPeerId",
      "InvalidNumNeighbours", "PeerNotIdentified", "ListenFailed", "DialError",
      "MaxNeighboursReached", "EpochError", "SignatureError", "HashError",
      "ProvingError", "VerificationError", "KeygenFailed",
      "InvalidBootstrapPubkey", "Unknown">>

EigenErrorSet == {EigenErrors[i] : i \in DOMAIN EigenErrors}

\* The values of a u8.
Bytes == 0 .. 255

\* impl From<EigenError> for u8.
u8_from(e) ==
    CASE e = "InvalidKeypair" -> 0
      [] e = "InvalidAddress" -> 1
      [] e = "InvalidPubkey" -> 2
      [] e = "InvalidPeerId" -> 3
      [] e = "InvalidNumNeighbours" -> 4
      [] e = "PeerNotIdentified" -> 5
      [] e = "ListenFailed" -> 6
      [] e = "DialError" -> 7
      [] e = "MaxNeighboursReached" -> 8
      [] e = "EpochError" -> 9
      [] e = "SignatureError" -> 10
      [] e = "HashError" -> 11
      [] e = "ProvingError" -> 12
      [] e = "VerificationError" -> 13
      [] e = "KeygenFailed" -> 14
      [] e = "InvalidBootstrapPubkey" -> 15
      [] e = "Unknown" -> 16

\* A decoder that takes code 16 for the bootstrap key's error as well.
EigenError_from_mut_off_by_one(err) ==
    CASE err = 0 -> "InvalidKeypair"
      [] err = 1 -> "InvalidAddress"
      [] err = 2 -> "InvalidPubkey"
      [] err = 3 -> "InvalidPeerId"
      [] err = 4 -> "InvalidNumNeighbours"
      [] err = 5 -> "PeerNotIdentified"
      [] err = 6 -> "ListenFailed"
      [] err = 7 -> "DialError"
      [] err = 8 -> "MaxNeighboursReached"
      [] err = 9 -> "EpochError"
      [] err = 10 -> "SignatureError"
      [] err = 11 -> "HashError"
      [] err = 12 -> "ProvingError"
      [] err = 13 -> "VerificationError"
      [] err = 14 -> "KeygenFailed"
      [] err = 15 -> "InvalidBootstrapPubkey"
      [] err = 16 -> "InvalidBootstrapPubkey"
      [] OTHER -> "Unknown"

\* impl From<u8> for EigenError.
EigenError_from(err) ==
    CASE err = 0 -> "InvalidKeypair"
      [] err = 1 -> "InvalidAddress"
      [] err = 2 -> "InvalidPubkey"
      [] err = 3 -> "InvalidPeerId"
      [] err = 4 -> "InvalidNumNeighbours"
      [] err = 5 -> "PeerNotIdentified"
      [] err = 6 -> "ListenFailed"
      [] err = 7 -> "DialError"
      [] err = 8 -> "MaxNeighboursReached"
      [] err = 9 -> "EpochError"
      [] err = 10 -> "SignatureError"
      [] err = 11 -> "HashError"
      [] err = 12 -> "ProvingError"
      [] err = 13 -> "VerificationError"
      [] err = 14 -> "KeygenFailed"
      [] err = 15 -> "InvalidBootstrapPubkey"
      [] OTHER -> "Unknown"

\* An error is turned into its code and the code back into an error.  out
\* holds the error, the code and the decoded error.
ErrorEncode(e) ==
    /\ last' = Call("u8::from", NoPeer, GENESIS_EPOCH, "Ok",
                    [e |-> e, code |-> u8_from(e),
                     decoded |-> EigenError_from(u8_from(e))])
    /\ UNCHANGED <<peer, driver>>

\* A byte read off the wire is decoded.  out holds the byte and the error.
ErrorDecode(err) ==
    /\ last' = Call("EigenError::from", NoPeer, GENESIS_EPOCH, "Ok",
                    [err |-> err, e |-> EigenError_from(err)])
    /\ UNCHANGED <<peer, driver>>

NextErrors ==
    \/ \E e \in EigenErrorSet : ErrorEncode(e)
    \/ \E err \in Bytes : ErrorDecode(err)

SpecErrors == Init /\ [][NextErrors]_vars

\* ------------------------------------------------- a manager at work
\* The pre-trust maps of the network: everyone a quarter, or everyone a half.
PreTrusts == {[k \in ManagerKeys |-> Frac(1, d)] : d \in {2, 4}}
\* The pre-trust map the manager at work is made with: everyone a quarter.
OwnPreTrusts == {[k \in ManagerKeys |-> Frac(1, 4)]}

\* f64::NAN
F64_NAN == F64(0, 2047, BShl(<<1>>, 51))

\* The peers of the network: each trusts every peer by the same amount, or
\* the local trust scores are not numbers (f64::NAN for the peers with an
\* even key and the NaN of 0.0 / 0.0 for the others).
PeerMaps ==
    {[k \in ManagerKeys |->
        [local_trust_scores |-> [i \in ManagerKeys |-> Frac(1, d)],
         pre_trust_score |-> Frac(1, 4)]] : d \in {2, 4}}
    \cup {[k \in ManagerKeys |->
              [local_trust_scores |->
                  [i \in ManagerKeys |-> IF k % 2 = 0 THEN F64_NAN ELSE F64_INDEFINITE],
               pre_trust_score |-> Frac(1, 4)]]}

\* The managers handed to a heartbeat: clones made from one pre-trust map,
\* the same with the last manager made from another map, and the same with
\* this manager as it is now.
ClonedManagers ==
    {[k \in ManagerKeys |-> Manager_new(k, pre)] : pre \in PreTrusts}
    \cup {[k \in ManagerKeys |->
              Manager_new(k, [i \in ManagerKeys |-> Frac(1, IF k = MaxKey THEN 2 ELSE 4)])]}
FreshManagers == [k \in ManagerKeys |-> Manager_new(k, [i \in ManagerKeys |-> Frac(1, 4)])]
ManagerMaps(own) ==
    ClonedManagers
    \cup {[k \in ManagerKeys |-> IF k = own.index THEN own ELSE FreshManagers[k]]}

\* The managers the hashes of a key reach: every manager in turn, starting
\* at the key's own.
Trees ==
    {[k \in ManagerKeys |-> [i \in 1 .. MaxManagers |-> (k + i - 1) % (MaxKey + 1)]]}

\* The keys handed to add_child.
ChildKeys == 0 .. 1

Deltas == {Frac(1, 16)}
PreTrustWeights == {Frac(1, 2)}

\* Manager::new(index, pre_trust_scores)
ManagerNew(index, pre_trust_scores) ==
    /\ last.op = "new"
    /\ manager' = [state |-> Manager_new(index, pre_trust_scores), calls |-> 0]
    /\ last' = Call("Manager::new", NoPeer, GENESIS_EPOCH, "Ok", <<>>)
    /\ UNCHANGED <<peer, node, remote>>

\* A manager was made.
ManagerMade ==
    last.op \in {"Manager::new", "add_child", "heartbeat_child", "heartbeat", "reset"}

\* manager.add_child(child): any key at any time, the keys the manager
\* already has included.
ManagerAddChild(child) ==
    /\ ManagerMade
    /\ Len(manager.state.children) < MaxChildren
    /\ manager' = [manager EXCEPT !.state = Manager_add_child(@, child)]
    /\ last' = Call("add_child", NoPeer, GENESIS_EPOCH, "Ok", <<>>)
    /\ UNCHANGED <<peer, node, remote>>

\* A manager that was made and is still called.
ManagerAtWork ==
    /\ ManagerMade
    /\ manager.calls < MaxBeats

\* manager.heartbeat_child(index, ...).  out holds the manager before the
\* call and the arguments.
ManagerHeartbeatChild(index, peers, managers, manager_tree, delta, pre_trust_weight, num_managers) ==
    /\ ManagerAtWork
    /\ \E beat \in Manager_heartbeat_child(manager.state, index, peers, managers,
                                            manager_tree, delta, pre_trust_weight,
                                            num_managers) :
          /\ manager' = [state |-> beat.m, calls |-> manager.calls + 1]
          /\ last' = Call("heartbeat_child", NoPeer, GENESIS_EPOCH, beat.res,
                          [before |-> manager.state, index |-> index, peers |-> peers,
                           managers |-> managers, manager_tree |-> manager_tree,
                           delta |-> delta, pre_trust_weight |-> pre_trust_weight,
                           num_managers |-> num_managers])
    /\ UNCHANGED <<peer, node, remote>>

\* manager.heartbeat(...).  out holds the manager before the call.
ManagerHeartbeat(peers, managers, manager_tree, delta, pre_trust_weight, num_managers) ==
    /\ ManagerAtWork
    /\ \E beat \in Manager_heartbeat(manager.state, peers, managers, manager_tree,
                                      delta, pre_trust_weight, num_managers) :
          /\ manager' = [state |-> beat.m, calls |-> manager.calls + 1]
          /\ last' = Call("heartbeat", NoPeer, GENESIS_EPOCH, beat.res,
                          [before |-> manager.state])
    /\ UNCHANGED <<peer, node, remote>>

\* manager.reset(), at any time.  out holds the manager before the call.
ManagerReset ==
    /\ ManagerMade
    /\ manager' = [manager EXCEPT !.state = Manager_reset(@)]
    /\ last' = Call("reset", NoPeer, GENESIS_EPOCH, "Ok", [before |-> manager.state])
    /\ UNCHANGED <<peer, node, remote>>

NextManager ==
    \/ \E pre_trust_scores \in OwnPreTrusts : ManagerNew(0, pre_trust_scores)
    \/ \E child \in ChildKeys : ManagerAddChild(child)
    \/ \E index \in ManagerKeys, peers \in PeerMaps, managers \in ManagerMaps(manager.state),
          manager_tree \in Trees, delta \in Deltas, pre_trust_weight \in PreTrustWeights,
          num_managers \in {1, MaxManagers - 1} :
            ManagerHeartbeatChild(index, peers, managers, manager_tree, delta,
                                  pre_trust_weight, num_managers)
    \/ \E peers \in PeerMaps, managers \in ManagerMaps(manager.state),
          manager_tree \in Trees, delta \in Deltas, pre_trust_weight \in PreTrustWeights,
          num_managers \in {1, MaxManagers - 1} :
            ManagerHeartbeat(peers, managers, manager_tree, delta, pre_trust_weight,
                             num_managers)
    \/ ManagerReset

SpecManager == Init /\ [][NextManager]_vars

\* ------------------------------------------------- the vote of the managers
\* The peer the vote is about (key_of_interest).
KeyOfInterest == 2

\* The scores a manager may hold for the peer.
HeldScores == {Frac(1, 5), Frac(3, 10), Frac(2, 5)}

\* manager.calculate_global_trust_score_for(key_of_interest, managers, tree,
\* num_managers), the i-th hash of the key reaching manager i - 1.  out
\* holds the scores of the polled managers in the order of the poll.
ManagerVote(held, num_managers) ==
    /\ last.op \in {"new", "calculate_global_trust_score_for"}
    /\ LET managers == [k \in 0 .. MaxManagers - 1 |->
                            Manager_new(k, [i \in {KeyOfInterest} |-> held[k + 1]])]
            manager_tree == [k \in {KeyOfInterest} |-> [i \in 1 .. MaxManagers |-> i - 1]]
            vote == Manager_calculate_global_trust_score_for(KeyOfInterest, managers,
                                                             manager_tree, num_managers)
       IN last' = Call("calculate_global_trust_score_for", NoPeer, GENESIS_EPOCH,
                       IF vote.ok THEN "Ok" ELSE vote.err,
                       [held |-> SubSeq(held, 1, num_managers),
                        num_managers |-> num_managers,
                        score |-> IF vote.ok THEN <<vote.score>> ELSE <<>>])
    /\ UNCHANGED <<peer, driver>>

NextVote ==
    \E held \in [1 .. MaxManagers -> HeldScores], num_managers \in 1 .. MaxManagers :
        ManagerVote(held, num_managers)

SpecVote == Init /\ [][NextVote]_vars

\* ---------------------------------------------- the keys of the caches
\* The opinion messages of the neighbors: requests for every epoch, and
\* from peer 1 responses with a proved opinion of every epoch or the empty
\* opinion.
KeyedEvents ==
    EventsOf({"Request::Opinion"}, TablePeers, Epochs)
      \cup EventsOf({"Response::Opinion"}, {1}, ProvedOpinions \cup {Opinion_empty})

\* A node whose neighbors connect, identify themselves (with a key for which
\* generation works or with one for which it fails) and get a score, all
\* before the first local opinion is cached, and exchange opinions with it.
NextKeys ==
    \/ \E authentic, keygen, listens \in BOOLEAN :
          NodeNew(LocalKey, authentic, keygen, listens)
    \/ \E event \in EventsOf({"ConnectionEstablished"}, TablePeers, {0}) :
          BeforeCaching /\ HandleEvent(event)
    \/ \E p \in TablePeers, pubkey \in {1, NumKeys} :
          NodeExists /\ BeforeCaching /\ IdentifyNeighbor(p, pubkey) /\ Unobserved
    \/ \E p \in TablePeers :
          NodeExists /\ BeforeCaching /\ SetScore(p, 1) /\ Unobserved
    \/ \E event \in KeyedEvents : HandleEvent(event)
    \/ \E p \in TablePeers, k \in Epochs : NodeExists /\ CalculateLocalOpinion(p, k)

SpecKeys == Init /\ [][NextKeys]_vars

\* --------------------------------------------- connections and neighbors
\* The swarm opens one more connection with p and yields
\* ConnectionEstablished; the node handles it.
ConnectionOpens(p) ==
    /\ node.connections[p] < MaxConnections
    /\ LET handled == handle_swarm_events(peer, [type |-> "ConnectionEstablished",
                                                  peer_id |-> p, arg |-> 0])
       IN /\ peer' = handled.peer
          /\ node' = [node EXCEPT !.connections[p] = @ + 1,
                                  !.admitted = IF \E i \in Slots : handled.peer.neighbors[i] = p
                                               THEN @ \cup {p} ELSE @]
    /\ last' = Call("ConnectionEstablished", p, GENESIS_EPOCH, "Ok", <<>>)
    /\ UNCHANGED <<remote, manager>>

\* One connection with p closes and the swarm yields ConnectionClosed; the
\* node handles it.
ConnectionCloses(p) ==
    /\ node.connections[p] > 0
    /\ peer' = handle_swarm_events(peer, [type |-> "ConnectionClosed",
                                          peer_id |-> p, arg |-> 0]).peer
    /\ node' = [node EXCEPT !.connections[p] = @ - 1,
                            !.admitted = IF node.connections[p] = 1 THEN @ \ {p} ELSE @]
    /\ last' = Call("ConnectionClosed", p, GENESIS_EPOCH, "Ok", <<>>)
    /\ UNCHANGED <<remote, manager>>

NextConnections ==
    \/ \E p \in PeerIds : ConnectionOpens(p)
    \/ \E p \in PeerIds : ConnectionCloses(p)

SpecConnections == Init /\ [][NextConnections]_vars

\* ------------------------------------------------ the circuit gadgets
\* The field F of the chips (Fr of bn256 in the tests): the integers modulo
\* a prime.
FieldModulus == 7
Field == 0 .. FieldModulus - 1
F_add(x, y) == (x + y) % FieldModulus
F_sub(x, y) == (x - y) % FieldModulus
F_mul(x, y) == (x * y) % FieldModulus

\* The arrays of n field elements.
Arrays(n) == [1 .. n -> Field]

\* IsZeroChip::synthesize: the cell that holds 1 for a zero input and 0 for
\* any other.
IsZeroChip_synthesize(x) == IF x = 0 THEN 1 ELSE 0

\* The rows i .. N - 1 of the set_membership region.  A column is the
\* sequence of its cells, row r at index r + 1; selector is the set of the
\* rows the selector is enabled on.
RECURSIVE FixedSetRows(_, _, _, _)
FixedSetRows(i, region, items, target) ==
    IF i >= Len(items) THEN region
    ELSE LET assigned_item == items[i + 1]
             diff == F_sub(region.target[i + 1], assigned_item)
             next_product == F_mul(region.product[i + 1], diff)
         IN FixedSetRows(i + 1,
                         [region EXCEPT !.selector = @ \cup {i},
                                        !.items = Append(@, assigned_item),
                                        !.diffs = Append(@, diff),
                                        !.product = Append(@, next_product),
                                        !.target = Append(@, target)],
                         items, target)

\* synthesize with the initial product 0.
FixedSetChip_synthesize_mut_zero_product(items, target) ==
    LET region == FixedSetRows(0, [product |-> <<0>>, target |-> <<target>>,
                                   items |-> <<>>, diffs |-> <<>>, selector |-> {}],
                               items, target)
        product == region.product[Len(region.product)]
    IN [region |-> region, is_zero |-> IsZeroChip_synthesize(product)]

\* FixedSetChip::synthesize: the region it assigns and the cell it returns.
FixedSetChip_synthesize(items, target) ==
    LET region == FixedSetRows(0, [product |-> <<1>>, target |-> <<target>>,
                                   items |-> <<>>, diffs |-> <<>>, selector |-> {}],
                               items, target)
        product == region.product[Len(region.product)]
    IN [region |-> region, is_zero |-> IsZeroChip_synthesize(product)]

\* The gate fixed_set_membership of FixedSetChip::configure on a row.
FixedSetChip_gate(region, row) ==
    LET cur == row + 1
        next == row + 2
    IN /\ F_sub(F_mul(region.product[cur], region.diffs[cur]), region.product[next]) = 0
       /\ F_sub(F_add(region.diffs[cur], region.items[cur]), region.target[cur]) = 0
       /\ F_sub(region.target[next], region.target[cur]) = 0

\* A FixedSetChip over the items is synthesized for the target.  out holds
\* the items, the target, the region and the cell returned.
SetMembership(items, target) ==
    /\ last.op = "new"
    /\ last' = Call("FixedSetChip::synthesize", NoPeer, GENESIS_EPOCH, "Ok",
                    [items |-> items, target |-> target,
                     region |-> FixedSetChip_synthesize(items, target).region,
                     is_zero |-> FixedSetChip_synthesize(items, target).is_zero])
    /\ UNCHANGED <<peer, driver>>

NextSet == \E items \in Arrays(SetSize), target \in Field : SetMembership(items, target)

SpecSet == Init /\ [][NextSet]_vars

\* The rows i .. S - 1 of the acc region.
RECURSIVE AccumulatorRows(_, _, _)
AccumulatorRows(i, region, items) ==
    IF i >= Len(items) THEN region
    ELSE LET item == items[i + 1]
             val == F_add(region.acc[i + 1], item)
         IN AccumulatorRows(i + 1,
                            [region EXCEPT !.selector = @ \cup {i},
                                           !.items = Append(@, item),
                                           !.acc = Append(@, val)],
                            items)

\* synthesize that leaves the last item out of the sum.
AccumulatorChip_synthesize_mut_short(items) ==
    LET region == AccumulatorRows(0, [acc |-> <<0>>, items |-> <<>>, selector |-> {0}], items)
    IN [region |-> region, acc |-> region.acc[Len(region.acc) - 1]]

\* AccumulatorChip::synthesize: the region it assigns and the cell it
\* returns.
AccumulatorChip_synthesize(items) ==
    LET region == AccumulatorRows(0, [acc |-> <<0>>, items |-> <<>>, selector |-> {0}], items)
    IN [region |-> region, acc |-> region.acc[Len(region.acc)]]

\* The gate acc of AccumulatorChip::configure on a row.
AccumulatorChip_gate(region, row) ==
    F_sub(F_add(region.acc[row + 1], region.items[row + 1]), region.acc[row + 2]) = 0

\* An AccumulatorChip over the items is synthesized.  out holds the items,
\* the region and the cell returned.
Accumulate(items) ==
    /\ last.op = "new"
    /\ last' = Call("AccumulatorChip::synthesize", NoPeer, GENESIS_EPOCH, "Ok",
                    [items |-> items,
                     region |-> AccumulatorChip_synthesize(items).region,
                     acc |-> AccumulatorChip_synthesize(items).acc])
    /\ UNCHANGED <<peer, driver>>

NextAccumulator == \E s \in 1 .. MaxItems : \E items \in Arrays(s) : Accumulate(items)

SpecAccumulator == Init /\ [][NextAccumulator]_vars

\* Every call and event, with every input.
Next ==
    \/ NextTable
    \/ NextCache
    \/ NextAggregate
    \/ NextLocal
    \/ NextFrame
    \/ NextDriver
    \/ NextExchange
    \/ NextEvents
    \/ NextLookup
    \/ NextEpoch
    \/ NextSkew
    \/ NextErrors
    \/ NextManager
    \/ NextVote
    \/ NextKeys
    \/ NextConnections
    \/ NextSet
    \/ NextAccumulator

Spec == Init /\ [][Next]_vars

\* ------------------------------------------------------------- claims
Filled(arr) == {i \in Slots : arr[i] # NoPeer}
Holds(arr, p) == \E i \in Slots : arr[i] = p

\* C1: after any sequence of add_neighbor and remove_neighbor calls, no two
\* slots of the neighbors array hold the same PeerId.
C1_NoDuplicateNeighbors ==
    \A i \in Slots : \A j \in Slots :
        (i # j /\ peer.neighbors[i] # NoPeer) => peer.neighbors[i] # peer.neighbors[j]

\* C1's case: add_neighbor was called for a peer that was already in the
\* array while another slot was free, after a removal left a hole below it.
C1_Witness ==
    /\ last.op = "add_neighbor"
    /\ Holds(last.out[1], last.peer_id)
    /\ last.out[1][1] = NoPeer
    /\ Filled(peer.neighbors) # {}

\* C10: add_neighbor(p) returns MaxNeighboursReached exactly when p is not a
\* neighbor and every slot is filled, and then leaves the array as it was;
\* for a p already present it returns Ok and changes nothing, also when the
\* table is full.
C10_AddNeighborResult ==
    last.op = "add_neighbor" =>
        LET before == last.out[1]
            present == Holds(before, last.peer_id)
            full == Filled(before) = Slots
        IN /\ last.res \in {"Ok", "MaxNeighboursReached"}
           /\ (last.res = "MaxNeighboursReached") <=> (~present /\ full)
           /\ (last.res = "MaxNeighboursReached") => peer.neighbors = before
           /\ present => (last.res = "Ok" /\ peer.neighbors = before)

\* C10's case: add_neighbor failed on a full table.
C10_Witness ==
    /\ last.op = "add_neighbor"
    /\ last.res = "MaxNeighboursReached"
    /\ Filled(peer.neighbors) = Slots
    /\ ~Holds(peer.neighbors, last.peer_id)

\* C2: both caches are first-write-wins: an insert under a key that already
\* holds an opinion leaves the cache unchanged, so the matching get_* still
\* returns the opinion of the first insert.  HashMap::insert replaces the
\* value instead, and a run of the code violates this statement.
C2_FirstWriteWins ==
    /\ (last.op = "cache_local_opinion" /\ last.out # <<>>) =>
            get_local_opinion(peer, <<last.peer_id, last.k>>) = last.out[1]
    /\ (last.op = "cache_neighbor_opinion" /\ last.out # <<>>) =>
            get_neighbor_opinion(peer, <<last.peer_id, last.k>>) = last.out[1]

\* What the claim says slot i contributes at epoch k, read off the fields.
C6_Expected(i, k) ==
    LET p == peer.neighbors[i]
        cache == peer.cached_neighbor_opinion
    IN IF /\ p # NoPeer
          /\ peer.pubkeys[p] # NoKey
          /\ <<p, k>> \in DOMAIN cache
          /\ Opinion_verify(cache[<<p, k>>], peer.pubkeys[p], peer.keypair) = "Ok(true)"
       THEN cache[<<p, k>>].op
       ELSE FZero

\* C6: get_neighbor_opinions_at(k) returns MAX_NEIGHBORS values in slot
\* order; entry i is the op of the inbound opinion cached under (peer_i, k)
\* when slot i holds peer_i, peer_i's pubkey is known and the opinion
\* verifies as true under it, and 0.0 in every other case; it never fails.
C6_NeighborOpinions ==
    last.op = "get_neighbor_opinions_at" =>
        /\ last.res = "Ok"
        /\ DOMAIN last.out = Slots
        /\ \A i \in Slots : last.out[i] = C6_Expected(i, last.k)

\* C6's case: one slot contributes a verified op, and another slot, filled
\* and identified, holds a nonzero opinion that does not verify and gives 0.0.
C6_Witness ==
    /\ last.op = "get_neighbor_opinions_at"
    /\ \E i \in Slots : last.out[i] # FZero
    /\ \E j \in Slots :
        LET p == peer.neighbors[j] IN
        /\ p # NoPeer
        /\ peer.pubkeys[p] # NoKey
        /\ <<p, last.k>> \in DOMAIN peer.cached_neighbor_opinion
        /\ peer.cached_neighbor_opinion[<<p, last.k>>].op # FZero
        /\ last.out[j] = FZero

\* MIN_SCORE plus the first n entries of arr, added one by one in slot order.
RECURSIVE C8_Sum(_, _)
C8_Sum(arr, n) == IF n = 0 THEN MIN_SCORE ELSE FAdd(C8_Sum(arr, n - 1), arr[n])

\* C8: global_trust_score_at(k) is MIN_SCORE plus the sum of the entries of
\* get_neighbor_opinions_at(k.previous()), the entries added to MIN_SCORE one
\* by one in slot order, and the call changes no state.
C8_GlobalScoreIsFold ==
    last.op = "global_trust_score_at" =>
        /\ last.out[1] =
             C8_Sum(get_neighbor_opinions_at(last.out[2], previous(last.k)),
                    MAX_NEIGHBORS)
        /\ peer = last.out[2]

\* C8's case: the score of an epoch after genesis, with at least two slots
\* contributing a nonzero opinion of the epoch before.
C8_Witness ==
    /\ last.op = "global_trust_score_at"
    /\ last.k # GENESIS_EPOCH
    /\ Cardinality({i \in Slots :
            get_neighbor_opinions_at(peer, previous(last.k))[i] # FZero}) >= 2

\* C9: MIN_SCORE <= global_trust_score_at(k) <= MIN_SCORE + MAX_NEIGHBORS in
\* every reachable state, whatever op values the inbound opinions carry.  The
\* code adds the ops as they came, and a run of the code violates this
\* statement.
C9_GlobalScoreBounded ==
    last.op = "global_trust_score_at" =>
        /\ FLeq(MIN_SCORE, last.out[1])
        /\ FLeq(last.out[1], FAdd(MIN_SCORE, FromInt(MAX_NEIGHBORS)))

\* C3: when (p, k) has no local-cache entry and the score of p is 0 or unset,
\* or the pubkey of p is unknown, calculate_local_opinion(p, k) leaves an
\* entry under (p, k) that is the empty opinion.  The code returns without
\* caching on a 0 score and files the empty opinion under its own epoch, and
\* a run of the code violates this statement.
C3_EmptyCachedUnderKey ==
    (/\ last.op = "calculate_local_opinion"
     /\ last.out = <<>>
     /\ \/ peer.neighbor_scores[last.peer_id] = 0
        \/ peer.pubkeys[last.peer_id] = NoKey) =>
        /\ <<last.peer_id, last.k>> \in DOMAIN peer.cached_local_opinion
        /\ peer.cached_local_opinion[<<last.peer_id, last.k>>] = Opinion_empty

\* C4: handling Request::Opinion(epoch) from p sends exactly one response;
\* when it is sent the local cache holds an entry under (p, epoch) and the
\* response carries that entry.  After a calculation that cached nothing
\* under (p, epoch) the response carries the default of get_local_opinion,
\* and a run of the code violates this statement.
C4_ResponseIsCachedEntry ==
    last.op = "Request::Opinion" =>
        /\ Len(last.out) = 1
        /\ last.out[1].type = "Response::Opinion"
        /\ <<last.peer_id, last.k>> \in DOMAIN peer.cached_local_opinion
        /\ last.out[1].opinion = peer.cached_local_opinion[<<last.peer_id, last.k>>]

\* C5: calling calculate_local_opinion(p, k) a second time right after the
\* first changes neither cache (nor anything else of the Peer).
C5_SecondCallChangesNothing ==
    last.op = "calculate_local_opinion" =>
        calculate_local_opinion(peer, last.peer_id, last.k) = peer

\* C5's case: the first call generated an opinion from a nonzero inbound
\* opinion and cached it.
C5_Witness ==
    /\ last.op = "calculate_local_opinion"
    /\ last.res = "generated"
    /\ <<last.peer_id, last.k>> \in DOMAIN peer.cached_local_opinion
    /\ peer.cached_local_opinion[<<last.peer_id, last.k>>].op # FZero
    /\ \E i \in Slots : get_neighbor_opinions_at(peer, previous(last.k))[i] # FZero

\* The Peer with no local opinion cached.
C7_Fresh(s) == [s EXCEPT !.cached_local_opinion = <<>>]

\* C7: for every epoch k, genesis included, an inbound opinion cached under
\* epoch k changes neither global_trust_score_at(k) nor the opinion
\* calculate_local_opinion(p, k) produces.  previous() saturates at 0, so at
\* genesis both read the opinions of epoch k itself, and a run violates this
\* statement.
C7_NoSameEpochInfluence ==
    \A k \in Epochs : \A q \in TablePeers : \A o \in ProvedOpinions :
        o.epoch = k =>
            LET with == cache_neighbor_opinion(peer, <<q, k>>, o) IN
            /\ global_trust_score_at(with, k) = global_trust_score_at(peer, k)
            /\ \A p \in TablePeers :
                get_local_opinion(calculate_local_opinion(C7_Fresh(with), p, k), <<p, k>>)
                  = get_local_opinion(calculate_local_opinion(C7_Fresh(peer), p, k), <<p, k>>)

\* The members of a sequence.
Range(seq) == {seq[i] : i \in DOMAIN seq}

\* C11: in every reachable state and for every peer p, after add_neighbor(p)
\* followed by remove_neighbor(p) the list neighbors() does not contain p
\* (so after every remove_neighbor(p) that was called, p is in no slot); and
\* neighbors() never has more than MAX_NEIGHBORS members.
C11_RemovedAfterAdd ==
    /\ \A p \in PeerIds :
          p \notin Range(neighbors(remove_neighbor(add_neighbor(peer, p).peer, p)))
    /\ last.op = "remove_neighbor" => last.peer_id \notin Range(neighbors(peer))
    /\ Len(neighbors(peer)) <= MAX_NEIGHBORS

\* C11's case: remove_neighbor(p) was called on a full table holding p in
\* its first slot, and the other neighbors are still listed.
C11_Witness ==
    /\ last.op = "remove_neighbor"
    /\ Filled(last.out[1]) = Slots
    /\ last.out[1][1] = last.peer_id
    /\ Len(neighbors(peer)) = MAX_NEIGHBORS - 1

\* The lowest empty slot of arr, 0 when there is none.
C12_LowestEmpty(arr) ==
    IF Filled(arr) = Slots THEN 0
    ELSE CHOOSE i \in Slots \ Filled(arr) : \A j \in Slots \ Filled(arr) : i <= j

\* C12: add_neighbor puts a new neighbor in the lowest-index empty slot, and
\* neither add_neighbor nor remove_neighbor moves another neighbor: every
\* slot but the one written holds what it held before the call.
C12_SlotsAreStable ==
    LET before == last.out[1] IN
    /\ (last.op = "add_neighbor" /\ ~Holds(before, last.peer_id)
            /\ C12_LowestEmpty(before) # 0) =>
          /\ peer.neighbors[C12_LowestEmpty(before)] = last.peer_id
          /\ \A i \in Slots : i # C12_LowestEmpty(before) => peer.neighbors[i] = before[i]
    /\ last.op = "remove_neighbor" =>
          \A i \in Slots : before[i] # last.peer_id => peer.neighbors[i] = before[i]
    /\ last.op \in {"add_neighbor", "remove_neighbor"} =>
          \A i \in Slots : \A q \in PeerIds :
              (q # last.peer_id /\ before[i] = q) => peer.neighbors[i] = q

\* C12's case: a peer was removed from a slot below a filled one, leaving a
\* hole there, and the next add_neighbor filled that hole.
C12_Witness ==
    /\ last.op = "add_neighbor"
    /\ last.out[1][1] = NoPeer
    /\ \E i \in Slots : i > 1 /\ last.out[1][i] # NoPeer
    /\ peer.neighbors[1] = last.peer_id

\* C13: remove_neighbor(p) changes nothing but the slot of p: the pubkey
\* maps, the scores and both opinion caches, the entries keyed by p
\* included, are as before, whether or not p was a neighbor.
C13_RemoveKeepsTheRest ==
    last.op = "remove_neighbor" =>
        LET before == last.out[2] IN
        /\ peer.pubkeys = before.pubkeys
        /\ peer.pubkeys_native = before.pubkeys_native
        /\ peer.neighbor_scores = before.neighbor_scores
        /\ peer.cached_neighbor_opinion = before.cached_neighbor_opinion
        /\ peer.cached_local_opinion = before.cached_local_opinion
        /\ \A i \in Slots :
              before.neighbors[i] # last.peer_id => peer.neighbors[i] = before.neighbors[i]

\* C13's case: the removed peer was a neighbor with both keys known, a
\* score and an entry in each cache, and all of these are still there.
C13_Witness ==
    /\ last.op = "remove_neighbor"
    /\ Holds(last.out[1], last.peer_id)
    /\ ~Holds(peer.neighbors, last.peer_id)
    /\ peer.pubkeys[last.peer_id] # NoKey
    /\ peer.pubkeys_native[last.peer_id] # NoKey
    /\ peer.neighbor_scores[last.peer_id] # 0
    /\ \E k \in Epochs : <<last.peer_id, k>> \in DOMAIN peer.cached_neighbor_opinion
    /\ \E k \in Epochs : <<last.peer_id, k>> \in DOMAIN peer.cached_local_opinion

\* C14: a Response::Opinion(o) from the sender p is stored in the inbound
\* cache under (p, o.epoch), and it creates or changes no other entry: an
\* entry whose key names another peer is what it was before the response.
C14_ResponseCachedUnderSender ==
    [][last'.op = "Response::Opinion" =>
        LET key == <<last'.peer_id, last'.out[1].epoch>>
            old == peer.cached_neighbor_opinion
            new == peer'.cached_neighbor_opinion
        IN /\ key \in DOMAIN new
           /\ new[key] = last'.out[1]
           /\ DOMAIN new = DOMAIN old \cup {key}
           /\ \A x \in DOMAIN old : x # key => new[x] = old[x]]_vars

\* C14's case: a response of epoch 1 was handled while the cache held an
\* opinion of another peer, and both entries are there.
C14_Witness ==
    /\ last.op = "Response::Opinion"
    /\ last.out[1].epoch # GENESIS_EPOCH
    /\ <<last.peer_id, last.out[1].epoch>> \in DOMAIN peer.cached_neighbor_opinion
    /\ \E x \in DOMAIN peer.cached_neighbor_opinion : x[1] # last.peer_id

\* C15: a handled tick sends exactly one Request::Opinion to each peer in a
\* neighbor slot and none to any other peer, each for the epoch of the clock
\* at the time the tick is handled.
C15_TickRequestsEachNeighbor ==
    last.op = "tick" =>
        /\ Len(last.out) = Cardinality(Filled(peer.neighbors))
        /\ \A i \in Filled(peer.neighbors) :
              Cardinality({j \in DOMAIN last.out : last.out[j].to = peer.neighbors[i]}) = 1
        /\ \A j \in DOMAIN last.out :
              /\ Holds(peer.neighbors, last.out[j].to)
              /\ last.out[j].type = "Request::Opinion"
              /\ last.out[j].arg = node.clock

\* C15's case: a tick handled with the table full, after the clock passed a
\* second boundary (the tick of that boundary is still pending).
C15_Witness ==
    /\ last.op = "tick"
    /\ Filled(peer.neighbors) = Slots
    /\ Len(last.out) = MAX_NEIGHBORS
    /\ node.ticks > 0
    /\ node.clock > GENESIS_EPOCH + 1

\* C16: while a tick is pending no loop iteration handles a swarm event: the
\* queue of swarm events does not shrink before the tick is handled.
C16_TickBeforeSwarm ==
    [][(node.pc = "loop" /\ node.ticks > 0) =>
            Len(node'.events) >= Len(node.events)]_vars

\* C16's case: a tick was handled while the queue of swarm events was full.
C16_Witness ==
    /\ last.op = "tick"
    /\ Len(node.events) = MaxQueue

\* C17: with interval_limit Some(n) main_loop returns Ok after handling
\* exactly n ticks and handles no tick beyond the n-th.  With Some(0) the
\* loop handles a tick before it compares the count, and a run of the code
\* violates this statement.
C17_ExactlyNTicks ==
    node.interval_limit # <<>> =>
        /\ node.handled <= node.interval_limit[1]
        /\ node.pc = "Ok" => node.handled = node.interval_limit[1]

\* The sum of the scores of the peers in the filled slots of s.
C19_ScoreSum(s) ==
    LET RECURSIVE Sum(_)
        Sum(i) == IF i = 0 THEN 0
                  ELSE Sum(i - 1) + (IF s.neighbors[i] = NoPeer THEN 0
                                     ELSE s.neighbor_scores[s.neighbors[i]])
    IN Sum(MAX_NEIGHBORS)

\* acc plus the verified inbound opinions of the filled slots at epoch k,
\* added one by one in slot order.
C19_InboundSum(acc, k) ==
    LET RECURSIVE Sum(_)
        Sum(i) == IF i = 0 THEN acc ELSE FAdd(Sum(i - 1), C6_Expected(i, k))
    IN Sum(MAX_NEIGHBORS)

\* f64::EPSILON, 2^-52
F64_EPSILON == F64(0, 971, <<>>)

\* The relative difference that the rounding of the MAX_NEIGHBORS additions
\* and the multiplication of two ways to work out one value leaves.
C19_Tolerance == FMul(FromInt(MAX_NEIGHBORS + 2), F64_EPSILON)

\* x is y up to rounding.
C19_Near(x, y) == FLeq(FAbs(FSub(x, y)), FMul(C19_Tolerance, FAbs(y)))

\* The verified inbound opinions at epoch k are finite and not negative, and
\* their sum with MIN_SCORE is finite.
C19_InRange(k) ==
    /\ \A i \in Slots : IsFinite(C6_Expected(i, k)) /\ FLeq(FZero, C6_Expected(i, k))
    /\ IsFinite(C19_InboundSum(MIN_SCORE, k))

\* The op is, up to rounding, both the share of MIN_SCORE + the inbound sum
\* and the global trust score times the normalized score.
C19_IsShare(op, inbound, share, global, normalized_score) ==
    /\ C19_Near(op, FMul(inbound, share))
    /\ C19_Near(op, FMul(global, normalized_score))

C18_RoundDone(k) ==
    /\ Holds(peer.neighbors, RemoteId)
    /\ Holds(remote.peer.neighbors, LocalId)
    /\ peer.neighbor_scores[RemoteId] > 0
    /\ remote.peer.neighbor_scores[LocalId] > 0
    /\ node.requested = {k}
    /\ remote.requested = {k}
    /\ node.events = <<>>
    /\ remote.events = <<>>

\* The inbound cache of s holds under (other, k) an opinion of epoch k.
C18_HoldsOpinion(s, other, k) ==
    /\ <<other, k>> \in DOMAIN s.cached_neighbor_opinion
    /\ s.cached_neighbor_opinion[<<other, k>>].epoch = k

\* C18: after a round at epoch k between two connected neighbors
\* with positive scores for each other, each inbound cache holds under
\* (other, k) an opinion whose epoch is k.
C18_RoundCachesOpinions ==
    \A k \in Epochs :
        C18_RoundDone(k) =>
            /\ C18_HoldsOpinion(peer, RemoteId, k)
            /\ C18_HoldsOpinion(remote.peer, LocalId, k)

\* C21: when Opinion::generate fails inside calculate_local_opinion(p, k),
\* the call returns, get_local_opinion((p, k)) then returns the empty
\* opinion, and the neighbors, both pubkey maps, the scores and the inbound
\* cache are the ones before the call.
C21_GenerateErrorIsSwallowed ==
    [][(last'.op = "calculate_local_opinion" /\ last'.res = "generate_failed") =>
          /\ get_local_opinion(peer', <<last'.peer_id, last'.k>>) = Opinion_empty
          /\ peer'.neighbors = peer.neighbors
          /\ peer'.pubkeys = peer.pubkeys
          /\ peer'.pubkeys_native = peer.pubkeys_native
          /\ peer'.neighbor_scores = peer.neighbor_scores
          /\ peer'.cached_neighbor_opinion = peer.cached_neighbor_opinion
          /\ peer'.keypair = peer.keypair]_vars

\* C21's case: a generation that failed for an epoch after genesis, for a
\* neighbor with a positive score, with an inbound opinion in the cache.
C21_Witness ==
    /\ last.op = "calculate_local_opinion"
    /\ last.res = "generate_failed"
    /\ last.k # GENESIS_EPOCH
    /\ Holds(peer.neighbors, last.peer_id)
    /\ peer.cached_neighbor_opinion # <<>>
    /\ <<last.peer_id, GENESIS_EPOCH>> \in DOMAIN peer.cached_local_opinion

\* C22: handling an Identify(pubkey) request from p records pubkey as the
\* application pubkey of p, whatever was recorded before, and sends one
\* response to p: Identify(own pubkey) when the own pubkey derives,
\* InternalError with the derivation error otherwise.
C22_IdentifyRequestAnswered ==
    last.op = "Request::Identify" =>
        /\ peer.pubkeys[last.peer_id] = last.out.arg
        /\ Len(last.out.sent) = 1
        /\ last.out.sent[1].to = last.peer_id
        /\ IF PubkeyFails(peer.keypair)
           THEN /\ last.out.sent[1].type = "Response::InternalError"
                /\ last.out.sent[1].arg = "InvalidPubkey"
           ELSE /\ last.out.sent[1].type = "Response::Identify"
                /\ last.out.sent[1].arg = Pubkey_from_keypair(peer.keypair)

\* C22's case: an Identify request that replaced an earlier pubkey of p was
\* answered with the own pubkey.
C22_Witness ==
    /\ last.op = "Request::Identify"
    /\ last.out.pubkey_before = 1
    /\ last.out.arg = 2
    /\ last.out.sent[1].type = "Response::Identify"

\* The events handle_req_res_events only logs.
C23_Logged == {"Response::InternalError", "OutboundFailure", "InboundFailure", "ResponseSent"}

\* C23: handling a Response::InternalError, an OutboundFailure, an
\* InboundFailure or a ResponseSent event leaves the whole Peer as it was
\* and sends no message.
C23_LoggedEventsChangeNothing ==
    [][(last'.op \in C23_Logged) => (peer' = peer /\ last'.out.sent = <<>>)]_vars

\* C23's case: a failure reported about a neighbor whose opinion is cached.
C23_Witness ==
    /\ last.op = "OutboundFailure"
    /\ Holds(peer.neighbors, last.peer_id)
    /\ <<last.peer_id, GENESIS_EPOCH>> \in DOMAIN peer.cached_neighbor_opinion
    /\ peer.pubkeys[last.peer_id] # NoKey

\* C24: when a ConnectionEstablished event for p is handled while every slot
\* holds another peer, the neighbor table stays as it was, p is no neighbor
\* and the loop goes on; and a tick sends its requests to neighbors only, so
\* none to p.
C24_FullTableKeepsLooping ==
    /\ [][(/\ last'.op = "ConnectionEstablished"
           /\ Filled(peer.neighbors) = Slots
           /\ ~Holds(peer.neighbors, last'.peer_id)) =>
              (/\ peer' = peer
               /\ ~Holds(peer'.neighbors, last'.peer_id)
               /\ node'.pc = "loop")]_vars
    /\ [](last.op = "tick" =>
            \A i \in DOMAIN last.out : Holds(peer.neighbors, last.out[i].to))

\* C24's case: the connection of a peer was handled with every slot held by
\* another peer, after a tick and with the loop still running.
C24_Witness ==
    /\ last.op = "ConnectionEstablished"
    /\ Filled(peer.neighbors) = Slots
    /\ ~Holds(peer.neighbors, last.peer_id)
    /\ node.pc = "loop"
    /\ node.handled > 0

\* C25: a PeerId becomes a key of the application pubkey map only in the
\* step that handles an Identify request or an Identify response from that
\* peer; no other event and no tick adds a key.
C25_PubkeyOnlyByIdentify ==
    [][\A p \in PeerIds :
          (peer.pubkeys[p] = NoKey /\ peer'.pubkeys[p] # NoKey) =>
              (/\ last'.op \in {"Request::Identify", "Response::Identify"}
               /\ last'.peer_id = p)]_vars

\* C25's case: the Identify response of a connected neighbor, whose
\* transport key was known, made its application pubkey known.
C25_Witness ==
    /\ last.op = "Response::Identify"
    /\ last.out.pubkey_before = NoKey
    /\ peer.pubkeys[last.peer_id] # NoKey
    /\ peer.pubkeys_native[last.peer_id] # NoKey
    /\ Holds(peer.neighbors, last.peer_id)
    /\ \E p \in TablePeers : peer.pubkeys[p] = NoKey

\* Every entry of the cache before is in the cache after, unchanged.
C26_Kept(before, after) ==
    \A key \in DOMAIN before : key \in DOMAIN after /\ after[key] = before[key]

\* C26: no step removes a key from the local or the inbound cache, and no
\* step replaces the opinion stored under a key by a different one.
C26_CachesOnlyGrow ==
    [][/\ C26_Kept(peer.cached_local_opinion, peer'.cached_local_opinion)
       /\ C26_Kept(peer.cached_neighbor_opinion, peer'.cached_neighbor_opinion)]_vars

\* What a lookup of key in cache returns: the entry, or the empty opinion.
C27_Lookup(cache, key) == IF key \in DOMAIN cache THEN cache[key] ELSE Opinion_empty

\* C27: get_local_opinion(key) and get_neighbor_opinion(key) return the
\* opinion their own cache stores under key, or the empty opinion when it
\* stores none, and caching an opinion in one cache changes what the other
\* returns for no key.
C27_LookupsAreIndependent ==
    [][LET key == <<last'.peer_id, last'.k>> IN
       /\ last'.op = "get_local_opinion" =>
             last'.out[1] = C27_Lookup(peer.cached_local_opinion, key)
       /\ last'.op = "get_neighbor_opinion" =>
             last'.out[1] = C27_Lookup(peer.cached_neighbor_opinion, key)
       /\ last'.op = "cache_local_opinion" =>
             \A other \in PeerIds \X Epochs :
                 get_neighbor_opinion(peer', other) = get_neighbor_opinion(peer, other)
       /\ last'.op = "cache_neighbor_opinion" =>
             \A other \in PeerIds \X Epochs :
                 get_local_opinion(peer', other) = get_local_opinion(peer, other)]_vars

\* C27's case: a lookup in the inbound cache under a key that holds another
\* opinion in the local cache, and a key that holds none in either.
C27_Witness ==
    /\ last.op = "get_neighbor_opinion"
    /\ <<last.peer_id, last.k>> \in DOMAIN peer.cached_neighbor_opinion
    /\ <<last.peer_id, last.k>> \in DOMAIN peer.cached_local_opinion
    /\ last.out[1] # peer.cached_local_opinion[<<last.peer_id, last.k>>]
    /\ last.out[1] # Opinion_empty
    /\ \E p \in TablePeers, k \in Epochs :
          /\ <<p, k>> \notin DOMAIN peer.cached_local_opinion
          /\ <<p, k>> \notin DOMAIN peer.cached_neighbor_opinion

\* C28: set_score(p, s) sets the raw score of p to s and changes nothing
\* else; set twice with the same s it yields the state of one call, and
\* after set_score(p, s1); set_score(p, s2) the score of p is s2.
C28_SetScoreOverwrites ==
    \A p \in PeerIds, s1 \in Scores, s2 \in Scores :
        LET once == set_score(peer, p, s1)
            twice == set_score(once, p, s1)
            then == set_score(once, p, s2)
        IN /\ once.neighbor_scores[p] = s1
           /\ \A q \in PeerIds \ {p} : once.neighbor_scores[q] = peer.neighbor_scores[q]
           /\ [once EXCEPT !.neighbor_scores = peer.neighbor_scores] = peer
           /\ twice = once
           /\ then.neighbor_scores[p] = s2

\* C28's case: a score was set for a connected, identified peer with
\* opinions in both caches, while another peer has none.
C28_Witness ==
    \E p \in TablePeers, q \in TablePeers :
        /\ peer.neighbor_scores[p] = MaxScore
        /\ peer.neighbor_scores[q] = 0
        /\ Holds(peer.neighbors, p)
        /\ peer.pubkeys[p] # NoKey
        /\ peer.cached_local_opinion # <<>>
        /\ peer.cached_neighbor_opinion # <<>>

\* C29: for an interval I > 0, a genesis G and a time now >= G,
\* secs_until_next_epoch + ((now - G) mod I) = I, so the seconds are in
\* 1 .. I, and current_epoch = floor((now - G) / I) does not decrease as
\* now grows.
C29_ClockArithmetic ==
    /\ (last.op = "Epoch::read" /\ last.out.now >= last.out.genesis) =>
          LET I == last.out.interval
              G == last.out.genesis
              now == last.out.now
          IN /\ last.out.secs.ok /\ last.out.epoch.ok
             /\ last.out.secs.secs + ((now - G) % I) = I
             /\ last.out.secs.secs \in 1 .. I
             /\ last.out.epoch.epoch * I <= now - G
             /\ (last.out.epoch.epoch + 1) * I > now - G
             /\ \A earlier \in G .. now :
                   Epoch_current_epoch(I, G, earlier).epoch <= last.out.epoch.epoch

\* C29's case: the clock read on an epoch boundary after the first epoch,
\* with an interval of several seconds and a genesis after time 0.
C29_Witness ==
    /\ last.op = "Epoch::read"
    /\ last.out.interval > 1
    /\ last.out.genesis > 0
    /\ last.out.epoch.ok
    /\ last.out.epoch.epoch > 1
    /\ last.out.secs.secs = last.out.interval

\* C30: when the clock is before genesis as main_loop starts, or as it
\* handles a tick, main_loop returns EpochError; that tick sends no request,
\* and nothing is handled afterwards.
C30_EpochErrorStopsTheLoop ==
    /\ []((last.op = "main_loop" /\ node.clock < GENESIS_EPOCH) =>
             node.pc = "Err(EpochError)")
    /\ [][(last'.op = "tick" /\ node.clock < GENESIS_EPOCH) =>
             (/\ node'.pc = "Err(EpochError)"
              /\ last'.out = <<>>
              /\ node'.requested = node.requested
              /\ node'.handled = node.handled
              /\ peer' = peer)]_vars
    /\ [][node.pc = "Err(EpochError)" => (node' = node /\ peer' = peer)]_vars

\* C30's case: a tick found the clock before genesis after an earlier tick
\* was handled; neighbors and a swarm event were waiting.
C30_Witness ==
    /\ last.op = "tick"
    /\ last.res = "Err(EpochError)"
    /\ node.pc = "Err(EpochError)"
    /\ node.handled > 0
    /\ node.events # <<>>
    /\ Filled(peer.neighbors) # {}

\* C31: the error codes round-trip: decoding the code of a variant gives the
\* variant back, two variants never share a code, and every byte that is
\* the code of no variant decodes to Unknown.
C31_ErrorCodesRoundTrip ==
    /\ last.op = "u8::from" =>
          /\ last.out.code \in Bytes
          /\ last.out.decoded = last.out.e
          /\ \A other \in EigenErrorSet \ {last.out.e} : u8_from(other) # last.out.code
    /\ last.op = "EigenError::from" =>
          /\ last.out.e \in EigenErrorSet
          /\ (\A e \in EigenErrorSet : u8_from(e) # last.out.err) => last.out.e = "Unknown"
          /\ (last.out.err \in 17 .. 255) =>
                (\A e \in EigenErrorSet : u8_from(e) # last.out.err)

\* C31's case: the last variant before Unknown went through its code and
\* came back.
C31_Witness ==
    /\ last.op = "u8::from"
    /\ last.out.e = "InvalidBootstrapPubkey"
    /\ last.out.code = 15
    /\ last.out.decoded = "InvalidBootstrapPubkey"

\* C32: once a child is marked converged, heartbeat and heartbeat_child
\* leave its global trust score and its converged flag as they are, until
\* reset is called; after reset, a manager with a child is not converged.
C32_ConvergedChildIsFrozen ==
    /\ [][(last'.op \in {"heartbeat", "heartbeat_child"}) =>
            \A child \in ManagerKeys :
                GetOr(manager.state.children_states, child, FALSE) =>
                    /\ GetOr(manager'.state.children_states, child, FALSE)
                    /\ Manager_get_global_trust_score_for(manager'.state, child)
                         = Manager_get_global_trust_score_for(manager.state, child)]_vars
    /\ []((last.op = "reset" /\ manager.state.children # <<>>) =>
            ~Manager_is_converged(manager.state))

\* C32's case: a heartbeat came back Ok on a manager whose child, listed
\* twice, was already converged, with managers that would have given
\* another score.
C32_Witness ==
    /\ last.op = "heartbeat"
    /\ last.res = "Ok"
    /\ \E i \in DOMAIN manager.state.children :
          LET child == manager.state.children[i]
          IN /\ \E j \in DOMAIN manager.state.children :
                    j # i /\ manager.state.children[j] = child
             /\ GetOr(last.out.before.children_states, child, FALSE)
             /\ Manager_is_converged(manager.state)
             /\ Manager_get_global_trust_score_for(manager.state, child) # Frac(1, 4)
             /\ Manager_get_global_trust_score_for(manager.state, child) # Frac(1, 2)

\* The polled managers that hold the score.
C33_Votes(score) == Cardinality({i \in DOMAIN last.out.held : last.out.held[i] = score})

\* C33: calculate_global_trust_score_for returns a score only if more than
\* half of the num_managers polled managers hold it, and fails with
\* GlobalTrustCalculationFailed when no score is held by more than half.
C33_MajorityVote ==
    last.op = "calculate_global_trust_score_for" =>
        /\ last.res = "Ok" => 2 * C33_Votes(last.out.score[1]) > last.out.num_managers
        /\ (\A score \in HeldScores : 2 * C33_Votes(score) <= last.out.num_managers) =>
              last.res = "GlobalTrustCalculationFailed"

\* The sum over the peers j # i with a key of at most n of (local trust of j
\* toward i) times (voted global score of j), added in the order of the keys:
\* the values the f64 sum can have.
RECURSIVE C34_Sum(_, _, _)
C34_Sum(n, i, call) ==
    IF n < 0 THEN {FZero}
    ELSE IF n = i \/ n \notin DOMAIN call.peers THEN C34_Sum(n - 1, i, call)
    ELSE UNION {FAddEither(sum, opinion) :
                   sum \in C34_Sum(n - 1, i, call),
                   opinion \in FMulEither(
                       call.peers[n].local_trust_scores[i],
                       Manager_calculate_global_trust_score_for(
                           n, call.managers, call.manager_tree, call.num_managers).score)}

\* What C34 says the score of child i becomes: the values of the formula.
C34_Expected(i, call) ==
    UNION {FAddEither(weighted, pre_trusted) :
              weighted \in UNION {FMulEither(FSub(FOne, call.pre_trust_weight), sum) :
                                     sum \in C34_Sum(MaxKey, i, call)},
              pre_trusted \in FMulEither(call.pre_trust_weight, call.peers[i].pre_trust_score)}

\* The manager's score of child i is one of the expected values, and the
\* child is marked converged exactly when it is within delta of before.
C34_Holds(i, score, before, delta, expected) ==
    /\ score \in expected
    /\ GetOr(manager.state.children_states, i, FALSE)
         <=> FLeq(FAbs(FSub(score, before)), delta)

\* C34: heartbeat_child on a child that is not converged sets its global
\* trust score to (1 - a) * sum over j # i of c_ji * t_j + a * p_i, and marks
\* it converged exactly when the score moved by at most delta.
C34_HeartbeatChildFormula ==
    (/\ last.op = "heartbeat_child"
     /\ last.res = "Ok"
     /\ ~GetOr(last.out.before.children_states, last.out.index, FALSE)) =>
        C34_Holds(last.out.index,
                  Manager_get_global_trust_score_for(manager.state, last.out.index),
                  Manager_get_global_trust_score_for(last.out.before, last.out.index),
                  last.out.delta, C34_Expected(last.out.index, last.out))

\* C34's case: a child that was not converged moved by exactly delta and
\* was marked converged, the votes being taken among three managers.
C34_Witness ==
    /\ last.op = "heartbeat_child"
    /\ last.res = "Ok"
    /\ last.out.num_managers > 1
    /\ ~GetOr(last.out.before.children_states, last.out.index, FALSE)
    /\ GetOr(manager.state.children_states, last.out.index, FALSE)
    /\ FAbs(FSub(Manager_get_global_trust_score_for(manager.state, last.out.index),
                 Manager_get_global_trust_score_for(last.out.before, last.out.index)))
         = last.out.delta

\* C35: whenever calculate_local_opinion(p, k) hands a normalized score to
\* Opinion::generate, the sum of the neighbors' scores is positive and the
\* score of p is at most the sum, so the normalized score is in [0, 1].
C35_NormalizedScoreInUnitInterval ==
    [][(/\ last'.op \in {"calculate_local_opinion", "Request::Opinion"}
        /\ last'.res \in {"generated", "generate_failed"}) =>
          LET score == peer.neighbor_scores[last'.peer_id]
              normalized_score == get_normalized_score(peer, score)
          IN /\ get_sum_of_scores(peer) > 0
             /\ score <= get_sum_of_scores(peer)
             /\ FLeq(FZero, normalized_score)
             /\ FLeq(normalized_score, FromInt(1))]_vars

\* C36: calculate_local_opinion(p, k) writes at most the local-cache entry
\* under (p, k): every other entry of the local cache, the entry under
\* (p, GENESIS) for a later k included, the inbound cache, the neighbors,
\* the pubkeys and the scores are as before, whether the opinion was
\* generated or the empty one was substituted.
C36_WritesOnlyItsKey ==
    [][last'.op = "calculate_local_opinion" =>
          /\ \A key \in (DOMAIN peer.cached_local_opinion
                          \cup DOMAIN peer'.cached_local_opinion)
                         \ {<<last'.peer_id, last'.k>>} :
                /\ key \in DOMAIN peer.cached_local_opinion
                /\ key \in DOMAIN peer'.cached_local_opinion
                /\ peer'.cached_local_opinion[key] = peer.cached_local_opinion[key]
          /\ peer'.cached_neighbor_opinion = peer.cached_neighbor_opinion
          /\ peer'.neighbors = peer.neighbors
          /\ peer'.pubkeys = peer.pubkeys
          /\ peer'.pubkeys_native = peer.pubkeys_native
          /\ peer'.neighbor_scores = peer.neighbor_scores]_vars

\* C37: in every state reached through driver events and
\* calculate_local_opinion, an opinion stored under (p, k) in either cache
\* has the epoch field k (which covers the empty opinion, stored under its
\* own epoch).
C37_KeysMatchEpochs ==
    /\ \A key \in DOMAIN peer.cached_local_opinion :
          peer.cached_local_opinion[key].epoch = key[2]
    /\ \A key \in DOMAIN peer.cached_neighbor_opinion :
          peer.cached_neighbor_opinion[key].epoch = key[2]

\* C37's case: the local cache holds a generated opinion of the last epoch
\* and the empty opinion, and the inbound cache an opinion of the last
\* epoch and one of the genesis epoch.
C37_Witness ==
    /\ \E p \in TablePeers :
          /\ <<p, MaxEpoch>> \in DOMAIN peer.cached_local_opinion
          /\ peer.cached_local_opinion[<<p, MaxEpoch>>].proof # NoKey
    /\ \E p \in TablePeers :
          /\ <<p, GENESIS_EPOCH>> \in DOMAIN peer.cached_local_opinion
          /\ peer.cached_local_opinion[<<p, GENESIS_EPOCH>>] = Opinion_empty
    /\ <<1, MaxEpoch>> \in DOMAIN peer.cached_neighbor_opinion
    /\ <<1, GENESIS_EPOCH>> \in DOMAIN peer.cached_neighbor_opinion
    /\ last.op = "Request::Opinion"

\* C38: after any sequence of ConnectionEstablished and ConnectionClosed
\* events, several connections with one peer included, a peer that was
\* given a slot and still has an open connection is in a neighbor slot, and
\* a peer with no open connection is in none.
C38_TableTracksConnections ==
    \A p \in PeerIds :
        /\ (p \in node.admitted /\ node.connections[p] > 0) => Holds(peer.neighbors, p)
        /\ node.connections[p] = 0 => ~Holds(peer.neighbors, p)

\* C39: for every target and every set of N items, the cell FixedSetChip
\* returns holds 1 if the target equals an item and 0 otherwise: the
\* running product of (target - item_i), which the gate ties together on
\* every row, is zero exactly when the target is a member.
C39_SetMembership ==
    last.op = "FixedSetChip::synthesize" =>
        LET items == last.out.items
            region == last.out.region
            member == \E i \in DOMAIN items : items[i] = last.out.target
        IN /\ last.out.is_zero = IF member THEN 1 ELSE 0
           /\ region.product[1] = 1
           /\ region.product[Len(items) + 1] = 0 <=> member
           /\ region.selector = 0 .. Len(items) - 1
           /\ \A row \in region.selector : FixedSetChip_gate(region, row)
           /\ \A i \in DOMAIN items : region.items[i] = items[i]

\* C39's case: the target is the last item only, and the product stays
\* away from zero until the last row.
C39_Witness ==
    /\ last.op = "FixedSetChip::synthesize"
    /\ last.out.is_zero = 1
    /\ last.out.items[SetSize] = last.out.target
    /\ \A i \in 1 .. SetSize - 1 : last.out.items[i] # last.out.target
    /\ last.out.region.product[SetSize] > 1

\* The sum of the items from the i-th on, in the field.
RECURSIVE C40_Sum(_, _)
C40_Sum(items, i) ==
    IF i > Len(items) THEN 0 ELSE (items[i] + C40_Sum(items, i + 1)) % FieldModulus

\* C40: for every array of S items, the cell AccumulatorChip returns holds
\* the field sum of the S items, the accumulator starts at the constant 0,
\* and the gate acc + item = next acc holds and is enabled on each of the S
\* rows.
C40_AccumulatorSum ==
    last.op = "AccumulatorChip::synthesize" =>
        LET items == last.out.items
            region == last.out.region
        IN /\ last.out.acc = C40_Sum(items, 1)
           /\ region.acc[1] = 0
           /\ last.out.acc = region.acc[Len(items) + 1]
           /\ region.selector = 0 .. Len(items) - 1
           /\ \A row \in region.selector : AccumulatorChip_gate(region, row)
           /\ \A i \in DOMAIN items : region.items[i] = items[i]

\* C40's case: three items whose sum wraps around the field.
C40_Witness ==
    /\ last.op = "AccumulatorChip::synthesize"
    /\ Len(last.out.items) = MaxItems
    /\ last.out.items[1] + last.out.items[2] + last.out.items[3] > FieldModulus
    /\ last.out.acc > 0
    /\ last.out.items[MaxItems] > 0

====
